---- MODULE Spec2Model ----
(***************************************************************************)
(* Agent-step engine of the agent runtime: processStream (the streaming    *)
(* tool dispatcher), its serialization spine previousToolCallFinished, the *)
(* tool handlers chained on it and the commit of agentState.messageHistory.*)
(* processStream, createResponseHandler, createToolExecutionCallback and   *)
(* handleTaskCompleted are translated from the runtime's stream-parser     *)
(* source; executeToolCall / executeCustomToolCall (tool-executor) and     *)
(* processStreamWithTools (tool-stream-parser) are imported by it and are  *)
(* modelled from the design document (sections 4.3 and 4.4).               *)
(*                                                                         *)
(* Further components, each with its own variables and specification:      *)
(*   SpecSendMessage  the CLI's setupStreamingContext (abort listener),    *)
(*                    handleRunCompletion and handleRunError;              *)
(*   SpecClassifier   getRetryableErrorDescription and                     *)
(*                    isRetryablePostgresError;                            *)
(*   SpecTransaction  withSerializableTransaction and its retry loop;      *)
(*   SpecCreditGate   the credit gate's settle (design document, 4.7);     *)
(*   SpecOrchestrator the tree of agent runs: loopAgentSteps, the step     *)
(*                    budget, child runs and their credits (design         *)
(*                    document, sections 3 and 4.1);                       *)
(*   SpecTelemetry    startAgentRun, finishAgentRun and addAgentStep;      *)
(*   SpecFreeAgent    isFreeAgent and the free-tier allowlist;             *)
(*   SpecUserInfo     getUserInfoFromApiKey and its userInfoCache;         *)
(*   SpecStatusIndicator  the CLI's getStatusIndicatorState;               *)
(*   SpecMessageQueue the CLI's useMessageQueue hook;                      *)
(*   SpecWebSearch    the web-search route postWebSearch;                  *)
(*   SpecRunState     the SDK's run states: initialSessionState,           *)
(*                    withAdditionalMessage, withMessageHistory and        *)
(*                    applyOverridesToSessionState;                        *)
(*   SpecReadDocs     the read_docs handler handleReadDocs.                *)
(***************************************************************************)
EXTENDS Integers, Sequences, FiniteSets, TLC

\* ---------------------------------------------------------------- bounds
\* LLM stream events consumed over all steps (the terminal `end` not counted)
MaxEvents == 3
\* processStream invocations on the same agentState
MaxSteps == 2
\* messages sent (runs started) by the CLI
MaxRuns == 2
\* abort() calls on one run's AbortController
MaxAborts == 2
\* isRetryablePostgresError calls
MaxPgCalls == 2
\* invocations of settle
MaxInvocations == 3
\* telemetry calls (startAgentRun, addAgentStep, finishAgentRun)
MaxTelemetryCalls == 2
\* agent runs of one run tree (the main agent and the agents it spawns)
MaxAgentRuns == 3
\* largest step budget (stepsRemaining) a run starts with
MaxAgentSteps == 3
\* credits one run is charged directly
MaxDirectCredits == 1
\* calls of getUserInfoFromApiKey
MaxLookups == 3
\* messages added with addToQueue
MaxMessages == 3
\* agent streams active at once
MaxAgentStreams == 1
\* requests served by postWebSearch
MaxRequests == 3
\* calls that build a run state
MaxRunStateCalls == 2
\* later mutations of a returned run state
MaxMutations == 2
\* calls of handleReadDocs
MaxReadDocsCalls == 1

VARIABLES
  messageHistory,                    \* agentState.messageHistory
  messageHistoryBeforeStream,        \* snapshot taken when the step begins
  assistantMessages,                 \* text messages captured from the parser
  toolCallsToAddToMessageHistory,    \* recorded tool calls
  toolResultsToAddToMessageHistory,  \* recorded tool results
  errorMessages,                     \* user error messages, added after results
  hadToolCallError,
  previousToolCallFinished,          \* promise id: the serialization spine
  streamDone,                        \* streamDonePromise resolved
  toolPromises,                      \* one entry per parsed tool call of the step
  events,                            \* chunks passed to the caller's onResponseChunk
  aborted,                           \* signal.aborted
  pc,                                \* position of processStream
  awaiting,                          \* promise the parser awaits (inline call)
  pulled,                            \* LLM stream events consumed so far
  nextId,                            \* generateCompactId: next fresh id
  step                               \* number of the current processStream call

\* the CLI's send-message helpers (setupStreamingContext, handleRunCompletion,
\* handleRunError) and the state they drive
VARIABLES
  streamStatus,                      \* 'idle' | 'waiting' | 'streaming'
  canProcessQueue,
  isChainInProgress,
  isRetrying,
  wasAbortedByUser,                  \* streamRefs.state.wasAbortedByUser
  isQueuePaused,                     \* isQueuePausedRef.current
  timer,                             \* the send-message timer
  aiMessage,                         \* the AI message the updater writes
  signalAborted,                     \* abortController.signal.aborted
  run,                               \* client.run(): none, running, ended
  inputMode,                         \* chat store input mode
  runs,                              \* runs started so far
  abortCalls                         \* abort() calls on the run's controller

\* withSerializableTransaction and the classification of its errors
VARIABLES
  txPc,                              \* idle, attempt, sleeping, returned, thrown
  txContext,                         \* the caller's logging context
  txAttempts,                        \* db.transaction calls made
  txOutcomes,                        \* what each attempt did: a value or an error
  txWarnings,                        \* logger.warn calls
  txDelays,                          \* delays slept before the retries
  txResult,                          \* the value returned or the error thrown
  pgPc,                              \* isRetryablePostgresError: idle, examining, returned
  pgError,                           \* its argument
  pgCurrent,                         \* the value it is examining
  isRetryable,                       \* its result
  pgCalls                            \* calls made so far

\* the credit gate's settle and the ledger behind it
VARIABLES
  creditBalance,                     \* the user's balance
  ledger,                            \* operationId -> recorded result
  charged,                           \* operationId -> credits charged for it
  settlePc,                          \* per invocation: idle, attempt, returned, thrown
  settleOperationId,                 \* per invocation: its operationId
  settleAttempts,                    \* per invocation: transaction attempts made
  settleResult                       \* per invocation: the result returned

VARIABLES
  agentRuns,                         \* run -> its AgentState and loop position
  escaped,                           \* an exception crossed the orchestrator
  telemetryLog                       \* outcomes of the telemetry calls made

VARIABLES
  fullAgentId,                       \* argument of the last isFreeAgent call
  freeAgent                          \* what the call returned

VARIABLES
  userInfoCache,
  lookups

VARIABLES
  statusIndicatorArgs,
  statusIndicatorState

\* useMessageQueue; its streamStatus and canProcessQueue and the caller's
\* isChainInProgressRef are the variables of the send-message helpers
VARIABLES
  queuedMessages,                    \* the hook's state
  queuedMessagesRef,                 \* queuedMessagesRef.current
  streamMessageId,                   \* streamMessageIdRef.current is set
  activeAgentStreams,                \* activeAgentStreamsRef.current
  dispatchTimer,                     \* the 100 ms timeout and its queuedList
  sentMessages,                      \* the messages passed to sendMessage
  addedMessages                      \* addToQueue calls made so far

\* the web-search route
VARIABLES
  webSearch,                         \* the request postWebSearch is serving
  webSearchRequests                  \* requests served so far

\* the SDK's run states
VARIABLES
  heap,                              \* the objects allocated, by reference
  lastCall,                          \* the last call: input, result, arguments
  runStateCalls                      \* calls made so far

\* the read_docs handler
VARIABLES
  readDocs,                          \* the call of handleReadDocs in hand
  readDocsCalls                      \* calls made so far

processStreamVars ==
        << messageHistory, messageHistoryBeforeStream, assistantMessages,
           toolCallsToAddToMessageHistory, toolResultsToAddToMessageHistory,
           errorMessages, hadToolCallError, previousToolCallFinished,
           streamDone, toolPromises, events, aborted, pc, awaiting, pulled,
           nextId, step >>

sendMessageVars ==
        << streamStatus, canProcessQueue, isChainInProgress, isRetrying,
           wasAbortedByUser, isQueuePaused, timer, aiMessage, signalAborted,
           run, inputMode, runs, abortCalls >>

transactionVars ==
        << txPc, txContext, txAttempts, txOutcomes, txWarnings, txDelays,
           txResult, pgPc, pgError, pgCurrent, isRetryable, pgCalls >>

creditGateVars ==
        << creditBalance, ledger, charged, settlePc, settleOperationId,
           settleAttempts, settleResult >>

orchestratorVars == << agentRuns, escaped >>

telemetryVars == << telemetryLog >>

freeAgentVars == << fullAgentId, freeAgent >>

userInfoVars == << userInfoCache, lookups >>

statusIndicatorVars == << statusIndicatorArgs, statusIndicatorState >>

messageQueueVars ==
        << queuedMessages, queuedMessagesRef, streamMessageId,
           activeAgentStreams, dispatchTimer, sentMessages, addedMessages >>

\* the state of the send-message helpers that useMessageQueue does not hold
sendMessageRest ==
        << isRetrying, wasAbortedByUser, isQueuePaused, timer, aiMessage,
           signalAborted, run, inputMode, runs, abortCalls >>

webSearchVars == << webSearch, webSearchRequests >>

runStateVars == << heap, lastCall, runStateCalls >>

readDocsVars == << readDocs, readDocsCalls >>

\* the components added after the credit gate
furtherVars ==
        << orchestratorVars,
           telemetryVars,
           freeAgentVars,
           userInfoVars,
           statusIndicatorVars,
           messageQueueVars,
           webSearchVars,
           runStateVars,
           readDocsVars >>

vars == << processStreamVars, sendMessageVars, transactionVars, creditGateVars,
           furtherVars >>

\* what an action of processStream leaves alone
outsideProcessStream ==
        << sendMessageVars, transactionVars, creditGateVars, furtherVars >>

\* what an action of the send-message helpers leaves alone
outsideSendMessage ==
        << processStreamVars, transactionVars, creditGateVars, furtherVars >>

\* what an action of the transaction helpers leaves alone
outsideTransaction ==
        << processStreamVars, sendMessageVars, creditGateVars, furtherVars >>

\* the components specified before the orchestrator
earlierVars ==
        << processStreamVars, sendMessageVars, transactionVars, creditGateVars >>

\* what an action of the orchestrator leaves alone
outsideOrchestrator ==
        << earlierVars,
           telemetryVars,
           freeAgentVars,
           userInfoVars,
           statusIndicatorVars,
           messageQueueVars,
           webSearchVars,
           runStateVars,
           readDocsVars >>

\* what a telemetry call leaves alone
outsideTelemetry ==
        << earlierVars,
           orchestratorVars,
           freeAgentVars,
           userInfoVars,
           statusIndicatorVars,
           messageQueueVars,
           webSearchVars,
           runStateVars,
           readDocsVars >>

\* what a call of isFreeAgent leaves alone
outsideFreeAgent ==
        << earlierVars,
           orchestratorVars,
           telemetryVars,
           userInfoVars,
           statusIndicatorVars,
           messageQueueVars,
           webSearchVars,
           runStateVars,
           readDocsVars >>

\* what a call of getUserInfoFromApiKey leaves alone
outsideUserInfo ==
        << earlierVars,
           orchestratorVars,
           telemetryVars,
           freeAgentVars,
           statusIndicatorVars,
           messageQueueVars,
           webSearchVars,
           runStateVars,
           readDocsVars >>

\* what a render of the status indicator leaves alone
outsideStatusIndicator ==
        << earlierVars,
           orchestratorVars,
           telemetryVars,
           freeAgentVars,
           userInfoVars,
           messageQueueVars,
           webSearchVars,
           runStateVars,
           readDocsVars >>

\* what an action of useMessageQueue leaves alone
outsideMessageQueue ==
        << processStreamVars,
           sendMessageRest,
           transactionVars,
           creditGateVars,
           orchestratorVars,
           telemetryVars,
           freeAgentVars,
           userInfoVars,
           statusIndicatorVars,
           webSearchVars,
           runStateVars,
           readDocsVars >>

\* what a step of postWebSearch leaves alone
outsideWebSearch ==
        << earlierVars,
           orchestratorVars,
           telemetryVars,
           freeAgentVars,
           userInfoVars,
           statusIndicatorVars,
           messageQueueVars,
           runStateVars,
           readDocsVars >>

\* what a call on a run state leaves alone
outsideRunState ==
        << earlierVars,
           orchestratorVars,
           telemetryVars,
           freeAgentVars,
           userInfoVars,
           statusIndicatorVars,
           messageQueueVars,
           webSearchVars,
           readDocsVars >>

\* what a call of handleReadDocs leaves alone
outsideReadDocs ==
        << earlierVars,
           orchestratorVars,
           telemetryVars,
           freeAgentVars,
           userInfoVars,
           statusIndicatorVars,
           messageQueueVars,
           webSearchVars,
           runStateVars >>

\* what an action of the credit gate leaves alone
outsideCreditGate ==
        << processStreamVars, sendMessageVars, transactionVars, furtherVars >>

\* ------------------------------------------------------------- promises
\* Promise ids: StreamDonePromise, ResolvedPromise (Promise.resolve()), and
\* k >= 1 for the toolPromise of the k-th parsed tool call of the step.
StreamDonePromise == 0
ResolvedPromise == 0 - 1

\* ------------------------------------------------------------- registry
\* native tool names (toolNames of the tool constants)
toolNames == {"read_files", "read_docs", "task_completed", "spawn_agents"}
\* agentTemplate.spawnableAgents
spawnableAgents == {"researcher"}

endsAgentStep(toolName) == toolName = "task_completed"

\* the tool calls the model can emit: a name and whether its input
\* satisfies the tool's schema
ToolCallShapes ==
  { [toolName |-> "read_files", valid |-> TRUE],
    [toolName |-> "read_files", valid |-> FALSE],
    [toolName |-> "read_docs", valid |-> TRUE],
    [toolName |-> "task_completed", valid |-> TRUE],
    [toolName |-> "researcher", valid |-> TRUE],
    [toolName |-> "unknown_tool", valid |-> TRUE] }

\* ------------------------------------------------------------- messages
Msg(role, type, toolCallId, toolName, output) ==
  [role |-> role, type |-> type, toolCallId |-> toolCallId,
   toolName |-> toolName, output |-> output]

assistantMessage(text) == Msg("assistant", "text", 0, "", text)

ToolCallPart(toolCall) ==
  Msg("assistant", "tool-call", toolCall.toolCallId, toolCall.toolName, "")

ToolMessage(toolCallId, toolName, output) ==
  Msg("tool", "tool-result", toolCallId, toolName, output)

\* userMessage(withSystemTags(`Error during tool call: ${chunk.message}...`));
\* toolCallId stands for the chunk's message (0: an error chunk of the parser)
ErrorUserMessage(chunk) ==
  Msg("user", "error", chunk.toolCallId, "", "Error during tool call")

Event(type, toolCallId) == [type |-> type, toolCallId |-> toolCallId]

RECURSIVE MapToolCalls(_)
MapToolCalls(calls) ==
  IF calls = << >> THEN << >>
  ELSE << ToolCallPart(Head(calls)) >> \o MapToolCalls(Tail(calls))

\* finalization with the tool results placed before the tool calls
BuildMessageHistory_ResultsFirst(before, assistant, calls, results, errors) ==
  before \o assistant \o results \o MapToolCalls(calls) \o errors

\* finalization with the assistant text placed between calls and results
BuildMessageHistory_TextBetween(before, assistant, calls, results, errors) ==
  before \o MapToolCalls(calls) \o assistant \o results \o errors

\* finalization with the user errors placed before the tool results
BuildMessageHistory_ErrorsFirst(before, assistant, calls, results, errors) ==
  before \o assistant \o MapToolCalls(calls) \o errors \o results

\* the finalization of processStream
BuildMessageHistory(before, assistant, calls, results, errors) ==
  before \o assistant \o MapToolCalls(calls) \o results \o errors


\* ------------------------------------------------------------ the stream
\* text of a text chunk; an empty text is not captured as a message
Texts == {"", "ok"}

\* events the parser derives from the LLM stream
StreamChunks ==
  { [type |-> "text", text |-> t, toolName |-> "", valid |-> TRUE, isXmlMode |-> FALSE] : t \in Texts }
  \cup { [type |-> "reasoning", text |-> "", toolName |-> "", valid |-> TRUE, isXmlMode |-> FALSE],
         [type |-> "error", text |-> "", toolName |-> "", valid |-> TRUE, isXmlMode |-> FALSE] }
  \cup { [type |-> "tool-call", text |-> "", toolName |-> c.toolName, valid |-> c.valid, isXmlMode |-> x] :
           c \in ToolCallShapes, x \in BOOLEAN }

\* --------------------------------------------------------- tool promises
Settled(p) == p.state \in {"settled", "refused"}

\* whether promise id p has resolved
Resolved(p) ==
  \/ p = ResolvedPromise
  \/ p = StreamDonePromise /\ streamDone
  \/ p >= 1 /\ Settled(toolPromises[p])

RECURSIVE WillResolve(_)
\* whether promise id p has resolved or can still resolve
WillResolve(p) ==
  \/ p = ResolvedPromise
  \/ p = StreamDonePromise /\ streamDone
  \/ p >= 1 /\ \/ Settled(toolPromises[p])
               \/ toolPromises[p].state = "pending" /\ WillResolve(toolPromises[p].prev)

\* a new tool call that is chained on nothing
PreviousPromise_Unchained(isXmlMode, previous) == ResolvedPromise

\* a first inline tool call that is chained on the end of the stream too
PreviousPromise_AlwaysChained(isXmlMode, previous) == previous

\* createToolExecutionCallback: the predecessor a new tool call is chained on
PreviousPromise(isXmlMode, previous) ==
  IF isXmlMode /\ previous = StreamDonePromise THEN ResolvedPromise ELSE previous

\* inline calls that are not awaited
AwaitsToolPromise_Never(isXmlMode) == FALSE

\* createToolExecutionCallback: inline calls are awaited before the parser resumes
AwaitsToolPromise(isXmlMode) == isXmlMode

\* a commit that never waits for the spine
AwaitsPreviousToolCallFinished_Never(isAborted) == FALSE

\* processStream: the commit waits for the spine unless the step was aborted
AwaitsPreviousToolCallFinished(isAborted) == ~isAborted

\* tryTransformAgentToolCall: a call named after a spawnable agent becomes spawn_agents
tryTransformAgentToolCall(toolName) ==
  IF toolName \in spawnableAgents THEN "spawn_agents" ELSE toolName

\* an executor that does not validate the input
ParsesAsToolCall_Unvalidated(toolName, valid) == toolName \in toolNames

\* executor, dispatch steps 2 and 3: the descriptor exists and the input validates
ParsesAsToolCall(toolName, valid) == toolName \in toolNames /\ valid

\* a recorded call of the step already ends the step
StepEnding(calls) == \E i \in 1..Len(calls) : endsAgentStep(calls[i].toolName)

\* an executor that runs every endsAgentStep call
RejectsToolCall_Never(toolName, calls) == FALSE

\* executor: a further endsAgentStep call is rejected once one has ended the step
RejectsToolCall(toolName, calls) == endsAgentStep(toolName) /\ StepEnding(calls)

\* what callDocsSearchAPI gives handleReadDocs: the documentation, an error
\* field, a body with neither, or an exception (an Error or any other value)
DocsSearchOutcomes ==
  {"documentation", "error", "no-documentation", "throws-Error", "throws-other"}

\* handleReadDocs, documentationPromise: the value the handler resolves with;
\* a failure of the port is caught and turned into a value whose
\* documentation is the error text
DocumentationValue(outcome) ==
  CASE outcome = "documentation" ->
         [documentation |-> "docs", errorMessage |-> "undefined"]
    [] outcome = "error" ->
         [documentation |-> "error-text", errorMessage |-> "viaWebApi.error"]
    [] outcome = "no-documentation" ->
         [documentation |-> "error-text", errorMessage |-> "undefined"]
    [] outcome = "throws-Error" ->
         [documentation |-> "error-text", errorMessage |-> "errMsg"]
    [] outcome = "throws-other" ->
         [documentation |-> "error-text", errorMessage |-> "errMsg"]

\* handleReadDocs, result: always one json part holding the value
ReadDocsOutput(outcome) ==
  IF DocumentationValue(outcome).documentation = "docs"
    THEN "json"
    ELSE "json-error-text"

\* outputs a handler can produce: handleTaskCompleted returns [], handleReadDocs
\* its json part, the other handlers a json part or, when they throw, the
\* executor's error-json part
HandlerOutputs(toolName) ==
  IF toolName = "task_completed" THEN {"empty"}
  ELSE IF toolName = "read_docs"
    THEN {ReadDocsOutput(outcome) : outcome \in DocsSearchOutcomes}
    ELSE {"json", "error-json"}

\* outputs that carry the text of an error
ErrorOutputs ==
  {"error-json"} \cup
  {ReadDocsOutput(outcome) : outcome \in DocsSearchOutcomes \ {"documentation"}}

\* an executor that drops the result of a failed handler
RecordsToolResult_OnlySuccess(output) == output \notin ErrorOutputs

\* executor: every output of a handler is recorded as a tool message
RecordsToolResult(output) == TRUE

\* a response handler that does not flag error chunks
ResponseHandlerFlag_Unset(chunk, flag) == flag

\* createResponseHandler: what an event chunk does to hadToolCallError
ResponseHandlerFlag(chunk, flag) == IF chunk.type = "error" THEN TRUE ELSE flag

\* createResponseHandler: what an event chunk does to errorMessages
ResponseHandlerMessages(chunk, messages) ==
  IF chunk.type = "error" THEN Append(messages, ErrorUserMessage(chunk)) ELSE messages

\* ----------------------------------------------------------------- Init
\* the state of processStream's agent before the first step
ProcessStreamInit ==
  /\ messageHistory = << Msg("user", "prompt", 0, "", "prompt") >>
  /\ messageHistoryBeforeStream = << >>
  /\ assistantMessages = << >>
  /\ toolCallsToAddToMessageHistory = << >>
  /\ toolResultsToAddToMessageHistory = << >>
  /\ errorMessages = << >>
  /\ hadToolCallError = FALSE
  /\ previousToolCallFinished = StreamDonePromise
  /\ streamDone = FALSE
  /\ toolPromises = << >>
  /\ events = << >>
  /\ aborted = FALSE
  /\ pc = "idle"
  /\ awaiting = ResolvedPromise
  /\ pulled = 0
  /\ nextId = 1
  /\ step = 0

\* the AI message a run writes: its blocks, completion mark and error text
NewAiMessage ==
  [blocks |-> << >>, content |-> << >>, isComplete |-> FALSE, error |-> ""]

\* the CLI before the first message is sent (useMessageQueue's initial state)
SendMessageInit ==
  /\ streamStatus = "idle"
  /\ canProcessQueue = TRUE
  /\ isChainInProgress = FALSE
  /\ isRetrying = FALSE
  /\ wasAbortedByUser = FALSE
  /\ isQueuePaused = FALSE
  /\ timer = [running |-> FALSE, outcome |-> "none"]
  /\ aiMessage = NewAiMessage
  /\ signalAborted = FALSE
  /\ run = "none"
  /\ inputMode = "default"
  /\ runs = 0
  /\ abortCalls = 0

\* no transaction and no classification has been started
TransactionInit ==
  /\ txPc = "idle"
  /\ txContext = [userId |-> "", operationId |-> ""]
  /\ txAttempts = 0
  /\ txOutcomes = << >>
  /\ txWarnings = << >>
  /\ txDelays = << >>
  /\ txResult = [type |-> "none", value |-> "", error |-> 0]
  /\ pgPc = "idle"
  /\ pgError = 0
  /\ pgCurrent = 0
  /\ isRetryable = FALSE
  /\ pgCalls = 0

\* operation ids of the charges and the credits each one costs
OperationIds == {"op-1", "op-2"}
AmountOf(operationId) == IF operationId = "op-1" THEN 2 ELSE 1

\* invocations of settle
Invocations == 1..MaxInvocations

\* the user's balance before any charge: enough for one of the charges
InitialBalance == 2

\* an untouched ledger and no invocation of settle yet
CreditGateInit ==
  /\ creditBalance = InitialBalance
  /\ ledger = [operationId \in OperationIds |-> "none"]
  /\ charged = [operationId \in OperationIds |-> 0]
  /\ settlePc = [i \in Invocations |-> "idle"]
  /\ settleOperationId = [i \in Invocations |-> "op-1"]
  /\ settleAttempts = [i \in Invocations |-> 0]
  /\ settleResult = [i \in Invocations |-> "none"]

\* ------------------------------------------------------- agent run tree
RunIds == 1..MaxAgentRuns

\* the main agent: the root of the run tree
MainAgent == 1

NoParent == 0

\* AgentOutput before the run has produced one
NoOutput == [type |-> "none", message |-> ""]

\* stepsRemaining of a fresh AgentState (getInitialSessionState)
DefaultStepsRemaining == MaxAgentSteps

\* AgentState of a run that has not been created yet
UnspawnedRun ==
  [ pc |-> "unspawned", parent |-> NoParent,
    stepsRemaining |-> DefaultStepsRemaining,
    budget |-> DefaultStepsRemaining, stepsTaken |-> 0,
    creditsUsed |-> 0, directCreditsUsed |-> 0,
    retried |-> FALSE, output |-> NoOutput ]

OrchestratorInit ==
  /\ agentRuns = [r \in RunIds |-> UnspawnedRun]
  /\ escaped = FALSE

TelemetryInit == telemetryLog = << >>

\* no call of isFreeAgent yet
FreeAgentInit == fullAgentId = << >> /\ freeAgent = FALSE

\* the API keys of the callers
ApiKeys == {"key-1", "key-2"}

\* a key that is not in userInfoCache
NoUserInfo == [kind |-> "absent", id |-> "", email |-> ""]

\* the module starts with an empty userInfoCache and no call made
UserInfoInit ==
  /\ userInfoCache = [apiKey \in ApiKeys |-> NoUserInfo]
  /\ lookups = << >>

\* a clipboardMessage: undefined, null or a string
NoClipboardMessage == [type |-> "null", text |-> ""]

\* the status indicator before its first render
NotRendered == [kind |-> "none", message |-> ""]

\* the CLI starts connected, idle, with no message and no Ctrl-C pressed
StatusIndicatorInit ==
  /\ statusIndicatorArgs = [clipboardMessage |-> NoClipboardMessage,
                            streamStatus |-> "idle",
                            nextCtrlCWillExit |-> FALSE,
                            isConnected |-> TRUE]
  /\ statusIndicatorState = NotRendered

\* no timeout is pending
NoTimer == [pending |-> FALSE, queuedList |-> << >>]

\* useMessageQueue after its first render: an empty queue, and the dispatch
\* effect has run and found nothing to send
MessageQueueInit ==
  /\ queuedMessages = << >>
  /\ queuedMessagesRef = << >>
  /\ streamMessageId = FALSE
  /\ activeAgentStreams = 0
  /\ dispatchTimer = NoTimer
  /\ sentMessages = << >>
  /\ addedMessages = 0

\* postWebSearch before a request: nothing charged, nothing searched;
\* credits keeps what each checkCreditsAndCharge of the request answered
NoRequest ==
  [pc |-> "idle", attempt |-> 0, credits |-> << >>, chargeAttempts |-> 0,
   charges |-> 0, searches |-> 0, slept |-> << >>, response |-> "none"]

WebSearchInit ==
  /\ webSearch = NoRequest
  /\ webSearchRequests = 0

\* no reference
NoRef == 0

\* the content of a run state, whatever objects hold it
NoContent ==
  [sessionState |-> FALSE, messageHistory |-> << >>, stepsRemaining |-> 0,
   knowledgeFiles |-> << >>]

\* no call on a run state has been made
NoCall ==
  [fn |-> "none", input |-> NoRef, result |-> NoRef, before |-> NoContent,
   maxAgentSteps |-> [defined |-> FALSE, value |-> 0], mutations |-> 0]

RunStateInit ==
  /\ heap = << >>
  /\ lastCall = NoCall
  /\ runStateCalls = 0

\* a value that is undefined
UndefinedText == [defined |-> FALSE, text |-> ""]

\* no response of callDocsSearchAPI yet
NoResponse ==
  [thrown |-> "none", error |-> UndefinedText,
   documentation |-> [type |-> "undefined", text |-> ""],
   creditsUsed |-> [type |-> "undefined", value |-> 0]]

\* no call of handleReadDocs yet
NoReadDocs ==
  [pc |-> "idle", topic |-> UndefinedText, response |-> NoResponse,
   previousToolCallFinished |-> FALSE, capturedCreditsUsed |-> 0,
   value |-> [documentation |-> << >>, errorMessage |-> UndefinedText],
   result |-> << >>, creditsUsed |-> [resolved |-> FALSE, value |-> 0]]

ReadDocsInit ==
  /\ readDocs = NoReadDocs
  /\ readDocsCalls = 0

Init ==
  /\ ProcessStreamInit /\ SendMessageInit /\ TransactionInit /\ CreditGateInit
  /\ OrchestratorInit /\ TelemetryInit /\ FreeAgentInit /\ UserInfoInit
  /\ StatusIndicatorInit
  /\ MessageQueueInit /\ WebSearchInit /\ RunStateInit /\ ReadDocsInit

\* -------------------------------------------------------------- actions
\* processStream is called: snapshot of the history, fresh per-step state
ProcessStreamStart ==
  /\ pc \in {"idle", "done"}
  /\ step < MaxSteps
  /\ \A k \in 1..Len(toolPromises) :
       toolPromises[k].state = "pending" => ~WillResolve(k)
  /\ step' = step + 1
  /\ messageHistoryBeforeStream' = messageHistory
  /\ assistantMessages' = << >>
  /\ toolCallsToAddToMessageHistory' = << >>
  /\ toolResultsToAddToMessageHistory' = << >>
  /\ errorMessages' = << >>
  /\ hadToolCallError' = FALSE
  /\ previousToolCallFinished' = StreamDonePromise
  /\ streamDone' = FALSE
  /\ toolPromises' = << >>
  /\ events' = << >>
  /\ aborted' = FALSE
  /\ awaiting' = ResolvedPromise
  /\ pc' = "loop"
  /\ UNCHANGED << messageHistory, nextId, pulled >>
  /\ UNCHANGED outsideProcessStream

\* finalization: agentState.messageHistory is rebuilt from the snapshot
Finalize ==
  /\ messageHistory' = BuildMessageHistory(messageHistoryBeforeStream,
        assistantMessages, toolCallsToAddToMessageHistory,
        toolResultsToAddToMessageHistory, errorMessages)
  /\ pc' = "done"

\* after the loop: resolve streamDone and await the spine, or commit at once
AfterLoop ==
  IF AwaitsPreviousToolCallFinished(aborted)
    THEN pc' = "await" /\ streamDone' = TRUE /\ UNCHANGED messageHistory
    ELSE Finalize /\ UNCHANGED streamDone

\* top of the consumption loop: break when aborted, else pull from the parser
LoopTop ==
  /\ pc = "loop"
  /\ IF aborted THEN AfterLoop
       ELSE pc' = "next" /\ UNCHANGED << messageHistory, streamDone >>
  /\ UNCHANGED << messageHistoryBeforeStream, assistantMessages,
                  toolCallsToAddToMessageHistory, toolResultsToAddToMessageHistory,
                  errorMessages, hadToolCallError, previousToolCallFinished,
                  toolPromises, events, aborted, awaiting, pulled, nextId, step >>
  /\ UNCHANGED outsideProcessStream

\* a text chunk: captured by the parser callback, then forwarded by the loop
ParserText(chunk) ==
  /\ pc = "next" /\ pulled < MaxEvents /\ chunk.type = "text"
  /\ pulled' = pulled + 1
  /\ assistantMessages' =
       IF chunk.text # "" THEN Append(assistantMessages, assistantMessage(chunk.text))
       ELSE assistantMessages
  /\ events' = events \o << Event("text", 0), Event("string", 0) >>
  /\ pc' = "loop"
  /\ UNCHANGED << messageHistory, messageHistoryBeforeStream,
                  toolCallsToAddToMessageHistory, toolResultsToAddToMessageHistory,
                  errorMessages, hadToolCallError, previousToolCallFinished,
                  streamDone, toolPromises, aborted, awaiting, nextId, step >>
  /\ UNCHANGED outsideProcessStream

\* a reasoning chunk: forwarded as reasoning_delta
ParserReasoning(chunk) ==
  /\ pc = "next" /\ pulled < MaxEvents /\ chunk.type = "reasoning"
  /\ pulled' = pulled + 1
  /\ events' = Append(events, Event("reasoning_delta", 0))
  /\ pc' = "loop"
  /\ UNCHANGED << messageHistory, messageHistoryBeforeStream, assistantMessages,
                  toolCallsToAddToMessageHistory, toolResultsToAddToMessageHistory,
                  errorMessages, hadToolCallError, previousToolCallFinished,
                  streamDone, toolPromises, aborted, awaiting, nextId, step >>
  /\ UNCHANGED outsideProcessStream

\* an error chunk of the parser: forwarded, flagged and collected by the loop
ParserError(chunk) ==
  /\ pc = "next" /\ pulled < MaxEvents /\ chunk.type = "error"
  /\ pulled' = pulled + 1
  /\ events' = Append(events, Event("error", 0))
  /\ hadToolCallError' = TRUE
  /\ errorMessages' = Append(errorMessages, ErrorUserMessage(Event("error", 0)))
  /\ pc' = "loop"
  /\ UNCHANGED << messageHistory, messageHistoryBeforeStream, assistantMessages,
                  toolCallsToAddToMessageHistory, toolResultsToAddToMessageHistory,
                  previousToolCallFinished, streamDone, toolPromises, aborted,
                  awaiting, nextId, step >>
  /\ UNCHANGED outsideProcessStream


\* a dispatcher that ignores the abort signal
SkipsToolCall_Never(isAborted) == FALSE

\* onTagEnd / executeXmlToolCall: a tool call that arrives after the abort is skipped
SkipsToolCall(isAborted) == isAborted

\* onTagEnd when the signal is already aborted: nothing is dispatched
ParserToolCallAborted(chunk) ==
  /\ pc = "next" /\ pulled < MaxEvents /\ chunk.type = "tool-call"
  /\ SkipsToolCall(aborted)
  /\ pulled' = pulled + 1
  /\ pc' = "loop"
  /\ UNCHANGED << messageHistory, messageHistoryBeforeStream, assistantMessages,
                  toolCallsToAddToMessageHistory, toolResultsToAddToMessageHistory,
                  errorMessages, hadToolCallError, previousToolCallFinished,
                  streamDone, toolPromises, events, aborted, awaiting, nextId, step >>
  /\ UNCHANGED outsideProcessStream

\* onTagEnd: a parsed tool call (structured, or inline through executeXmlToolCall)
\* is given an id, chained on the spine and handed to the executor
ParserToolCall(chunk) ==
  /\ pc = "next" /\ pulled < MaxEvents /\ chunk.type = "tool-call"
  /\ ~SkipsToolCall(aborted)
  /\ pulled' = pulled + 1
  /\ nextId' = nextId + 1
  /\ LET toolCallId == nextId
         isNativeTool == chunk.toolName \in toolNames
         toolName == IF isNativeTool THEN chunk.toolName
                     ELSE tryTransformAgentToolCall(chunk.toolName)
         previousPromise == PreviousPromise(chunk.isXmlMode, previousToolCallFinished)
         ok == ParsesAsToolCall(toolName, chunk.valid)
         error == Event("error", toolCallId)
         entry == [toolCallId |-> toolCallId, toolName |-> toolName,
                   isXmlMode |-> chunk.isXmlMode, prev |-> previousPromise,
                   valid |-> chunk.valid,
                   state |-> IF ok THEN "pending" ELSE "invalid",
                   workDoneAt |-> 0, eventsAtDispatch |-> Len(events),
                   output |-> ""]
         toolPromise == IF ok THEN Len(toolPromises) + 1 ELSE previousPromise
     IN /\ toolPromises' = Append(toolPromises, entry)
        /\ previousToolCallFinished' = toolPromise
        /\ IF ok
             THEN UNCHANGED << events, hadToolCallError, errorMessages >>
             ELSE /\ events' = Append(events, error)
                  /\ hadToolCallError' = ResponseHandlerFlag(error, hadToolCallError)
                  /\ errorMessages' = ResponseHandlerMessages(error, errorMessages)
        /\ IF AwaitsToolPromise(chunk.isXmlMode)
             THEN pc' = "awaitXml" /\ awaiting' = toolPromise
             ELSE pc' = "loop" /\ UNCHANGED awaiting
  /\ UNCHANGED << messageHistory, messageHistoryBeforeStream, assistantMessages,
                  toolCallsToAddToMessageHistory, toolResultsToAddToMessageHistory,
                  streamDone, aborted, step >>
  /\ UNCHANGED outsideProcessStream

\* the awaited inline tool call has finished: the parser resumes
XmlResume ==
  /\ pc = "awaitXml"
  /\ Resolved(awaiting)
  /\ pc' = "loop"
  /\ UNCHANGED << messageHistory, messageHistoryBeforeStream, assistantMessages,
                  toolCallsToAddToMessageHistory, toolResultsToAddToMessageHistory,
                  errorMessages, hadToolCallError, previousToolCallFinished,
                  streamDone, toolPromises, events, aborted, awaiting, pulled,
                  nextId, step >>
  /\ UNCHANGED outsideProcessStream

\* the parser terminates: leave the loop
ParserEnd ==
  /\ pc = "next"
  /\ AfterLoop
  /\ UNCHANGED << messageHistoryBeforeStream, assistantMessages,
                  toolCallsToAddToMessageHistory, toolResultsToAddToMessageHistory,
                  errorMessages, hadToolCallError, previousToolCallFinished,
                  toolPromises, events, aborted, awaiting, pulled, nextId, step >>
  /\ UNCHANGED outsideProcessStream

\* await previousToolCallFinished has returned: commit
AwaitDone ==
  /\ pc = "await"
  /\ Resolved(previousToolCallFinished)
  /\ Finalize
  /\ UNCHANGED << messageHistoryBeforeStream, assistantMessages,
                  toolCallsToAddToMessageHistory, toolResultsToAddToMessageHistory,
                  errorMessages, hadToolCallError, previousToolCallFinished,
                  streamDone, toolPromises, events, aborted, awaiting, pulled,
                  nextId, step >>
  /\ UNCHANGED outsideProcessStream

\* suspension points of processStream, where handlers and the abort can run
Suspended == pc \in {"next", "awaitXml", "await", "done"}

\* number of handlers of the step whose own work has finished
WorkFinished ==
  Cardinality({ j \in 1..Len(toolPromises) : toolPromises[j].workDoneAt > 0 })

\* the handler's own work (started at dispatch) finishes; workDoneAt keeps
\* the order in which the handlers' work finished
HandlerWork(k) ==
  /\ Suspended
  /\ toolPromises[k].state = "pending"
  /\ toolPromises[k].workDoneAt = 0
  /\ toolPromises' = [toolPromises EXCEPT ![k].workDoneAt = WorkFinished + 1]
  /\ UNCHANGED << messageHistory, messageHistoryBeforeStream, assistantMessages,
                  toolCallsToAddToMessageHistory, toolResultsToAddToMessageHistory,
                  errorMessages, hadToolCallError, previousToolCallFinished,
                  streamDone, events, aborted, pc, awaiting, pulled, nextId, step >>
  /\ UNCHANGED outsideProcessStream

\* a handler whose result does not wait for its predecessor
AwaitedByHandler_Nothing(previous) == TRUE

\* handleReadDocs, handleTaskCompleted: `await previousToolCallFinished`
\* comes first in the handler's result
AwaitedByHandler(previous) == Resolved(previous)

\* the predecessor and the handler's work have finished: the call and its
\* result are recorded and announced
FinishTool(k, output) ==
  /\ Suspended
  /\ toolPromises[k].state = "pending"
  /\ toolPromises[k].workDoneAt > 0
  /\ AwaitedByHandler(toolPromises[k].prev)
  /\ ~RejectsToolCall(toolPromises[k].toolName, toolCallsToAddToMessageHistory)
  /\ output \in HandlerOutputs(toolPromises[k].toolName)
  /\ LET p == toolPromises[k]
     IN /\ toolCallsToAddToMessageHistory' = Append(toolCallsToAddToMessageHistory,
              [toolCallId |-> p.toolCallId, toolName |-> p.toolName])
        /\ toolResultsToAddToMessageHistory' =
              IF RecordsToolResult(output)
                THEN Append(toolResultsToAddToMessageHistory,
                            ToolMessage(p.toolCallId, p.toolName, output))
                ELSE toolResultsToAddToMessageHistory
        /\ events' = events \o << Event("tool_call", p.toolCallId),
                                  Event("tool_result", p.toolCallId) >>
  /\ toolPromises' = [toolPromises EXCEPT ![k].state = "settled",
                                          ![k].output = output]
  /\ UNCHANGED << messageHistory, messageHistoryBeforeStream, assistantMessages,
                  errorMessages, hadToolCallError, previousToolCallFinished,
                  streamDone, aborted, pc, awaiting, pulled, nextId, step >>
  /\ UNCHANGED outsideProcessStream

\* a further endsAgentStep call is rejected with an error event
RefuseTool(k) ==
  /\ Suspended
  /\ toolPromises[k].state = "pending"
  /\ toolPromises[k].workDoneAt > 0
  /\ Resolved(toolPromises[k].prev)
  /\ RejectsToolCall(toolPromises[k].toolName, toolCallsToAddToMessageHistory)
  /\ LET error == Event("error", toolPromises[k].toolCallId)
     IN /\ events' = Append(events, error)
        /\ hadToolCallError' = ResponseHandlerFlag(error, hadToolCallError)
        /\ errorMessages' = ResponseHandlerMessages(error, errorMessages)
  /\ toolPromises' = [toolPromises EXCEPT ![k].state = "refused"]
  /\ UNCHANGED << messageHistory, messageHistoryBeforeStream, assistantMessages,
                  toolCallsToAddToMessageHistory, toolResultsToAddToMessageHistory,
                  previousToolCallFinished, streamDone, aborted, pc, awaiting,
                  pulled, nextId, step >>
  /\ UNCHANGED outsideProcessStream

\* the user aborts the run
Abort ==
  /\ pc \in {"next", "awaitXml", "await"}
  /\ ~aborted
  /\ aborted' = TRUE
  /\ UNCHANGED << messageHistory, messageHistoryBeforeStream, assistantMessages,
                  toolCallsToAddToMessageHistory, toolResultsToAddToMessageHistory,
                  errorMessages, hadToolCallError, previousToolCallFinished,
                  streamDone, toolPromises, events, pc, awaiting, pulled, nextId,
                  step >>
  /\ UNCHANGED outsideProcessStream

Next ==
  \/ ProcessStreamStart
  \/ LoopTop
  \/ \E chunk \in StreamChunks : ParserText(chunk)
  \/ \E chunk \in StreamChunks : ParserReasoning(chunk)
  \/ \E chunk \in StreamChunks : ParserError(chunk)
  \/ \E chunk \in StreamChunks : ParserToolCallAborted(chunk)
  \/ \E chunk \in StreamChunks : ParserToolCall(chunk)
  \/ XmlResume
  \/ ParserEnd
  \/ AwaitDone
  \/ \E k \in 1..Len(toolPromises) : HandlerWork(k)
  \/ \E k \in 1..Len(toolPromises) :
       \E output \in HandlerOutputs(toolPromises[k].toolName) :
         FinishTool(k, output)
  \/ \E k \in 1..Len(toolPromises) : RefuseTool(k)
  \/ Abort

Spec == Init /\ [][Next]_vars

\* ------------------------------------------------- properties: helpers
\* positions of the assistant tool-call parts of history h that carry id
ToolCallPositions(h, id) ==
  { j \in 1..Len(h) : h[j].type = "tool-call" /\ h[j].toolCallId = id }

\* positions of the tool messages of history h that carry id
ToolMessagePositions(h, id) ==
  { j \in 1..Len(h) : h[j].role = "tool" /\ h[j].toolCallId = id }

\* positions of the events of the given type and id
EventPositions(type, id) ==
  { j \in 1..Len(events) : events[j].type = type /\ events[j].toolCallId = id }

\* positions of the events of the given type
EventsOfType(type) == { j \in 1..Len(events) : events[j].type = type }

\* the handlers k whose call and result are in the committed history
Committed(k) ==
  /\ toolPromises[k].state = "settled"
  /\ ToolMessagePositions(messageHistory, toolPromises[k].toolCallId) # {}

\* C1 (P-NO-ORPHAN, I-PAIR): every tool message of the history has exactly
\* one assistant tool-call part with its toolCallId, and that part comes
\* before the tool message.
C1_NoOrphanToolMessage ==
  \A i \in 1..Len(messageHistory) :
    messageHistory[i].role = "tool" =>
      LET calls == ToolCallPositions(messageHistory, messageHistory[i].toolCallId)
      IN Cardinality(calls) = 1 /\ \A j \in calls : j < i

\* C1 witness: a committed step mixing a successful call, a call whose
\* handler failed and a call that failed validation
C1_Witness ==
  /\ pc = "done"
  /\ Len(messageHistory) > Len(messageHistoryBeforeStream)
  /\ \E i \in 1..Len(messageHistory) :
       messageHistory[i].role = "tool" /\ messageHistory[i].output = "json"
  /\ \E i \in 1..Len(messageHistory) :
       messageHistory[i].role = "tool" /\ messageHistory[i].output = "error-json"
  /\ \E i \in 1..Len(messageHistory) :
       messageHistory[i].role = "user" /\ messageHistory[i].type = "error"
          /\ messageHistory[i].toolCallId > 0

\* C2 (O2, I-ADJACENT): in a committed history the assistant tool-call parts
\* and the tool messages are each in parse order (ids are assigned in parse
\* order), and only tool-call parts and tool messages stand between a tool
\* message and its originating assistant message.
C2_ParseOrderAndAdjacent ==
  pc = "done" =>
    LET h == messageHistory
    IN /\ \A i, j \in 1..Len(h) :
            (i < j /\ h[i].type = h[j].type /\ h[i].type \in {"tool-call", "tool-result"})
              => h[i].toolCallId < h[j].toolCallId
       /\ \A i \in 1..Len(h) : h[i].role = "tool" =>
            \A j \in ToolCallPositions(h, h[i].toolCallId) :
              \A m \in 1..Len(h) :
                 (j < m /\ m < i) => h[m].type \in {"tool-call", "tool-result"}

\* C2 witness: two calls of one step are committed although the work of the
\* later one finished first, together with a text message of the step
C2_Witness ==
  /\ pc = "done"
  /\ Len(assistantMessages) > 0
  /\ \E j, k \in 1..Len(toolPromises) :
       /\ j < k /\ Committed(j) /\ Committed(k)
       /\ toolPromises[k].workDoneAt < toolPromises[j].workDoneAt

\* C3 (O1, P-ORDER): the tool_call events are in parse order, the tool_result
\* events are in parse order, and every tool_result event comes after the
\* tool_call event of the same tool.
C3_EventOrder ==
  /\ \A i, j \in 1..Len(events) :
       (i < j /\ events[i].type = events[j].type
              /\ events[i].type \in {"tool_call", "tool_result"})
         => events[i].toolCallId < events[j].toolCallId
  /\ \A i \in EventsOfType("tool_result") :
       \E j \in EventPositions("tool_call", events[i].toolCallId) : j < i

\* C3 witness: both events of two tools have been emitted although the work
\* of the later tool finished first
C3_Witness ==
  \E j, k \in 1..Len(toolPromises) :
    /\ j < k
    /\ toolPromises[k].workDoneAt > 0
    /\ toolPromises[k].workDoneAt < toolPromises[j].workDoneAt
    /\ EventPositions("tool_result", toolPromises[j].toolCallId) # {}
    /\ EventPositions("tool_result", toolPromises[k].toolCallId) # {}

\* C4 (O4): a tool call whose input fails validation has no tool_call event,
\* no tool_result event, and neither a tool-call part nor a tool message in
\* the history.
C4_InvalidCallLeavesNoPair ==
  \A k \in 1..Len(toolPromises) :
    ~toolPromises[k].valid =>
      LET id == toolPromises[k].toolCallId
      IN /\ EventPositions("tool_call", id) = {}
         /\ EventPositions("tool_result", id) = {}
         /\ ToolCallPositions(messageHistory, id) = {}
         /\ ToolMessagePositions(messageHistory, id) = {}

\* C4 witness: a committed step with a validation failure next to a call
\* that was recorded
C4_Witness ==
  /\ pc = "done"
  /\ \E k \in 1..Len(toolPromises) : ~toolPromises[k].valid
  /\ \E k \in 1..Len(toolPromises) : Committed(k)

\* the user error messages of history h from position from on that carry id
ErrorMessagePositions(h, from, id) ==
  { j \in from..Len(h) : h[j].role = "user" /\ h[j].type = "error" /\ h[j].toolCallId = id }

Rank(m) ==
  IF m.role = "assistant" /\ m.type = "text" THEN 1
  ELSE IF m.type = "tool-call" THEN 2
  ELSE IF m.role = "tool" THEN 3
  ELSE 4

\* number of positions of h after position from that hold a message of rank r
CountRank(h, from, r) ==
  Cardinality({ j \in (from + 1)..Len(h) : Rank(h[j]) = r })

\* the commit step of processStream
IsCommit == pc # "done" /\ pc' = "done"

\* C6: the commit leaves the history of the step's beginning as the prefix
\* and appends the step's text messages, then one tool-call message per
\* recorded call, then the recorded results, then the user errors.
C6_CommitLayout ==
  [][IsCommit =>
      LET old == messageHistory
          new == messageHistory'
          n == Len(old)
      IN /\ Len(new) >= n
         /\ SubSeq(new, 1, n) = old
         /\ old = messageHistoryBeforeStream
         /\ \A i, j \in (n + 1)..Len(new) : i < j => Rank(new[i]) <= Rank(new[j])
         /\ CountRank(new, n, 1) = Len(assistantMessages)
         /\ CountRank(new, n, 2) = Len(toolCallsToAddToMessageHistory)
         /\ CountRank(new, n, 3) = Len(toolResultsToAddToMessageHistory)
         /\ CountRank(new, n, 4) = Len(errorMessages)
         /\ \A i \in (n + 1)..Len(new) : new[i].role = "user" => new[i].type = "error"
  ]_vars

\* C6 witness: a committed second step that wrote text, a call with its
\* result and a user error after a non-empty earlier history
C6_Witness ==
  /\ pc = "done"
  /\ Len(messageHistoryBeforeStream) > 0
  /\ LET n == Len(messageHistoryBeforeStream)
     IN /\ CountRank(messageHistory, n, 1) > 0
        /\ CountRank(messageHistory, n, 3) > 0
        /\ CountRank(messageHistory, n, 4) > 0

\* C7: a step that is not aborted commits only when every handler it
\* dispatched has finished.
C7_CommitAfterHandlers ==
  (pc = "done" /\ ~aborted) =>
    \A k \in 1..Len(toolPromises) : toolPromises[k].state # "pending"

\* C7 witness: an unaborted committed step with a handler that was chained
\* on the end of the stream, so it was still running when the stream ended
C7_Witness ==
  /\ pc = "done" /\ ~aborted
  /\ \E k \in 1..Len(toolPromises) :
       Committed(k) /\ toolPromises[k].prev = StreamDonePromise

\* C8: once an endsAgentStep call has finished, the step captures no further
\* text message and dispatches no further tool call.
C8_StopsAfterEndsAgentStep ==
  [][(StepEnding(toolCallsToAddToMessageHistory) /\ step' = step) =>
        /\ assistantMessages' = assistantMessages
        /\ Len(toolPromises') = Len(toolPromises)
  ]_vars

C10_InlineResultBeforeText ==
  \A k \in 1..Len(toolPromises) :
    toolPromises[k].isXmlMode =>
      /\ toolPromises[k].state = "pending" => (pc = "awaitXml" /\ awaiting = k)
      /\ \A i \in EventsOfType("text") \cup EventsOfType("string") :
           i > toolPromises[k].eventsAtDispatch =>
             /\ toolPromises[k].state # "pending"
             /\ toolPromises[k].state = "settled" =>
                  \E r \in EventPositions("tool_result", toolPromises[k].toolCallId) : r < i

\* C10 witness: text was emitted after an inline call whose handler ran
C10_Witness ==
  \E k \in 1..Len(toolPromises) :
    /\ toolPromises[k].isXmlMode
    /\ toolPromises[k].state = "settled"
    /\ \E i \in EventsOfType("string") : i > toolPromises[k].eventsAtDispatch

\* C11: once the abort signal is set, no tool call of the step is dispatched
\* any more, structured or inline: no handler is started and no id is drawn.
C11_NoDispatchAfterAbort ==
  [][(aborted /\ step' = step) =>
        /\ Len(toolPromises') = Len(toolPromises)
        /\ nextId' = nextId
        /\ previousToolCallFinished' = previousToolCallFinished
  ]_vars

\* C11 witness: a structured call was dispatched, the run was aborted, and a
\* second tool call that arrived afterwards left no trace
C11_Witness ==
  /\ step = 1 /\ aborted /\ pulled = 2 /\ pc = "loop"
  /\ Len(toolPromises) = 1
  /\ toolPromises[1].state = "pending"
  /\ events = << >>

\* C12: when a cancelled step commits, the result of every handler that was
\* in flight at the abort (dispatched and not refused) is in the committed
\* history.
C12_AbortedCommitKeepsInFlightResults ==
  (pc = "done" /\ aborted) =>
    \A k \in 1..Len(toolPromises) :
      toolPromises[k].state \in {"pending", "settled"} =>
        ToolMessagePositions(messageHistory, toolPromises[k].toolCallId) # {}

\* ======================================================================
\* The CLI's send-message helpers: setupStreamingContext and its abort
\* listener, handleRunCompletion, handleRunError.
\* ======================================================================

\* appendInterruptionNotice: the notice is added after the blocks
appendInterruptionNotice(blocks) == Append(blocks, "interruption-notice")

\* timerController.stop(outcome): a running timer stops with the outcome
TimerStop(t, outcome) ==
  IF t.running THEN [running |-> FALSE, outcome |-> outcome] ELSE t

\* updater.markComplete
MarkComplete(message) == [message EXCEPT !.isComplete = TRUE]

\* updater.setError
SetError(message, text) == [message EXCEPT !.error = text]

\* AbortController.abort(): the `abort` event is dispatched only when the
\* signal was not aborted before
FiresAbortEvent(isAborted) == ~isAborted

\* outputs of a run: no output, an error output, an out-of-credits error
\* output, a successful output
RunOutputs == {"none", "error", "out-of-credits", "success"}

\* errors thrown by client.run()
RunErrors == {"error", "out-of-credits"}

isOutOfCreditsError(e) == e = "out-of-credits"

\* startStreaming of the message queue
StartStreaming ==
  /\ streamStatus' = "streaming"
  /\ canProcessQueue' = FALSE

\* setupStreamingContext: stream refs reset, timer started, fresh updater
\* and AbortController
SetupStreamingContext ==
  /\ wasAbortedByUser' = FALSE
  /\ timer' = [running |-> TRUE, outcome |-> "none"]
  /\ aiMessage' = NewAiMessage
  /\ signalAborted' = FALSE
  /\ abortCalls' = 0

\* a message is sent: the chain is marked in progress, streaming starts and
\* the streaming context is set up; client.run() is in flight afterwards
SendMessage ==
  /\ run \in {"none", "ended"}
  /\ runs < MaxRuns
  /\ runs' = runs + 1
  /\ run' = "running"
  /\ isChainInProgress' = TRUE
  /\ StartStreaming
  /\ SetupStreamingContext
  /\ UNCHANGED << isRetrying, isQueuePaused, inputMode >>
  /\ UNCHANGED outsideSendMessage

\* the user pauses or resumes the queue (isQueuePausedRef.current)
SetQueuePaused(value) ==
  /\ isQueuePaused # value
  /\ isQueuePaused' = value
  /\ UNCHANGED << streamStatus, canProcessQueue, isChainInProgress, isRetrying,
                  wasAbortedByUser, timer, aiMessage, signalAborted, run,
                  inputMode, runs, abortCalls >>
  /\ UNCHANGED outsideSendMessage

\* the `abort` listener of setupStreamingContext
AbortListener ==
  /\ wasAbortedByUser' = TRUE
  /\ streamStatus' = "idle"
  /\ canProcessQueue' = ~isQueuePaused
  /\ isChainInProgress' = FALSE
  /\ isRetrying' = FALSE
  /\ timer' = TimerStop(timer, "aborted")
  /\ aiMessage' = MarkComplete(
        [aiMessage EXCEPT !.blocks = appendInterruptionNotice(aiMessage.blocks)])

\* abortController.abort() is called on the run's controller
AbortCall ==
  /\ run # "none"
  /\ abortCalls < MaxAborts
  /\ abortCalls' = abortCalls + 1
  /\ signalAborted' = TRUE
  /\ IF FiresAbortEvent(signalAborted)
       THEN AbortListener
       ELSE UNCHANGED << wasAbortedByUser, streamStatus, canProcessQueue,
                         isChainInProgress, isRetrying, timer, aiMessage >>
  /\ UNCHANGED << isQueuePaused, run, inputMode, runs >>
  /\ UNCHANGED outsideSendMessage

\* a finalizeAfterError that leaves the chain marked in progress
FinalizeAfterError_ChainKept ==
  /\ streamStatus' = "idle"
  /\ canProcessQueue' = TRUE
  /\ isChainInProgress' = isChainInProgress
  /\ timer' = TimerStop(timer, "error")

\* finalizeAfterError of handleRunCompletion
FinalizeAfterError ==
  /\ streamStatus' = "idle"
  /\ canProcessQueue' = TRUE
  /\ isChainInProgress' = FALSE
  /\ timer' = TimerStop(timer, "error")

\* handleRunCompletion: client.run() returned a run state with the given
\* output; resumeQueue is the optional callback that lifts the queue's pause
HandleRunCompletion(output, resumeQueue) ==
  /\ run = "running"
  /\ run' = "ended"
  /\ IF output = "none"
       THEN IF ~wasAbortedByUser
              THEN /\ aiMessage' = SetError(aiMessage, "No output from agent run")
                   /\ FinalizeAfterError
                   /\ UNCHANGED << inputMode, isQueuePaused >>
              ELSE UNCHANGED << aiMessage, streamStatus, canProcessQueue,
                                isChainInProgress, timer, inputMode, isQueuePaused >>
     ELSE IF output \in {"error", "out-of-credits"}
       THEN IF wasAbortedByUser
              THEN UNCHANGED << aiMessage, streamStatus, canProcessQueue,
                                isChainInProgress, timer, inputMode, isQueuePaused >>
            ELSE IF isOutOfCreditsError(output)
              THEN /\ aiMessage' = SetError(aiMessage, "OUT_OF_CREDITS_MESSAGE")
                   /\ inputMode' = "outOfCredits"
                   /\ FinalizeAfterError
                   /\ UNCHANGED isQueuePaused
              ELSE /\ aiMessage' = SetError(aiMessage, "error message")
                   /\ FinalizeAfterError
                   /\ UNCHANGED << inputMode, isQueuePaused >>
     ELSE /\ streamStatus' = "idle"
          /\ isQueuePaused' = IF resumeQueue THEN FALSE ELSE isQueuePaused
          /\ canProcessQueue' = TRUE
          /\ isChainInProgress' = FALSE
          /\ timer' = TimerStop(timer, "success")
          /\ aiMessage' = MarkComplete(aiMessage)
          /\ UNCHANGED inputMode
  /\ UNCHANGED << isRetrying, wasAbortedByUser, signalAborted, runs, abortCalls >>
  /\ UNCHANGED outsideSendMessage

\* handleRunError: client.run() threw
HandleRunError(error) ==
  /\ run = "running"
  /\ run' = "ended"
  /\ isRetrying' = FALSE
  /\ streamStatus' = "idle"
  /\ canProcessQueue' = TRUE
  /\ isChainInProgress' = FALSE
  /\ timer' = TimerStop(timer, "error")
  /\ IF isOutOfCreditsError(error)
       THEN /\ aiMessage' = SetError(aiMessage, "OUT_OF_CREDITS_MESSAGE")
            /\ inputMode' = "outOfCredits"
       ELSE /\ aiMessage' = MarkComplete(
                 [aiMessage EXCEPT !.content = Append(aiMessage.content, "error message")])
            /\ UNCHANGED inputMode
  /\ UNCHANGED << wasAbortedByUser, isQueuePaused, signalAborted, runs, abortCalls >>
  /\ UNCHANGED outsideSendMessage

NextSendMessage ==
  \/ SendMessage
  \/ \E value \in BOOLEAN : SetQueuePaused(value)
  \/ AbortCall
  \/ \E output \in RunOutputs, resumeQueue \in BOOLEAN :
       HandleRunCompletion(output, resumeQueue)
  \/ \E error \in RunErrors : HandleRunError(error)

SpecSendMessage == Init /\ [][NextSendMessage]_vars

\* an abort() call on the run's controller
IsAbortCall == abortCalls' = abortCalls + 1

\* C13 (P-ABORT-IDEMPOTENT): an abort() on a run that was already aborted or
\* has already ended leaves stream status, queue flags, the AI message and
\* the timer as they were.
C13_AbortIdempotent ==
  [][(IsAbortCall /\ (signalAborted \/ run = "ended")) =>
        UNCHANGED << streamStatus, canProcessQueue, isChainInProgress,
                     aiMessage, timer >>
  ]_vars

\* ======================================================================
\* withSerializableTransaction: retryable PostgreSQL errors and the retry
\* loop around db.transaction.
\* ======================================================================

\* an object without a cause
NoCause == 0

\* the `code` property of an error object: absent, a number, or a string
\* (kept as its characters)
NoCode == [type |-> "undefined", chars |-> << >>]
NumberCode == [type |-> "number", chars |-> << >>]
StringCode(chars) == [type |-> "string", chars |-> chars]

ErrorObject(code, cause) == [kind |-> "object", code |-> code, cause |-> cause]
NonObject(kind) == [kind |-> kind, code |-> NoCode, cause |-> NoCause]

\* the values handed to the classifier, by id; `cause` is the id of another
\* value. 1-4 are not objects; 5-8 carry codes of the retryable classes (7 and
\* 8 are not individually listed); 9-14 carry other codes, a numeric code or
\* none; 15-20 nest { code: '40001' } at depth 1 to 6 of the cause chain;
\* 21 is its own cause; 22 and 23 are each other's cause.
ErrorValues ==
  << NonObject("null"), NonObject("undefined"), NonObject("string"), NonObject("number"),
     ErrorObject(StringCode(<< "4", "0", "0", "0", "1" >>), NoCause),
     ErrorObject(StringCode(<< "0", "8", "0", "0", "6" >>), NoCause),
     ErrorObject(StringCode(<< "4", "0", "9", "9", "9" >>), NoCause),
     ErrorObject(StringCode(<< "5", "7", "P", "9", "9" >>), NoCause),
     ErrorObject(StringCode(<< "2", "3", "5", "0", "5" >>), NoCause),
     ErrorObject(StringCode(<< "4", "2", "6", "0", "1" >>), NoCause),
     ErrorObject(NoCode, NoCause),
     ErrorObject(NumberCode, NoCause),
     ErrorObject(StringCode(<< "c", "o", "n", "s", "t", "r", "u", "c", "t", "o", "r" >>), NoCause),
     ErrorObject(StringCode(<< "F", "E", "T", "C", "H", "_", "E", "R", "R", "O", "R" >>), 5),
     ErrorObject(NoCode, 5),
     ErrorObject(NoCode, 15),
     ErrorObject(NoCode, 16),
     ErrorObject(NoCode, 17),
     ErrorObject(NoCode, 18),
     ErrorObject(NoCode, 19),
     ErrorObject(NumberCode, 21),
     ErrorObject(NoCode, 23),
     ErrorObject(StringCode(<< "4", "0", "0", "0", "1" >>), 22) >>

ErrorIds == 1..Len(ErrorValues)

\* typeof
TypeOf(value) == IF value.kind = "null" THEN "object" ELSE value.kind

\* !value is false
Truthy(value) == value.kind \notin {"null", "undefined"}

RETRYABLE_PG_ERROR_CODES ==
  { [key |-> << "4", "0", "0", "0", "1" >>, value |-> "serialization_failure"],
    [key |-> << "4", "0", "0", "0", "3" >>, value |-> "statement_completion_unknown"],
    [key |-> << "4", "0", "P", "0", "1" >>, value |-> "deadlock_detected"],
    [key |-> << "0", "8", "0", "0", "0" >>, value |-> "connection_exception"],
    [key |-> << "0", "8", "0", "0", "1" >>, value |-> "sqlclient_unable_to_establish_sqlconnection"],
    [key |-> << "0", "8", "0", "0", "3" >>, value |-> "connection_does_not_exist"],
    [key |-> << "0", "8", "0", "0", "4" >>, value |-> "sqlserver_rejected_establishment_of_sqlconnection"],
    [key |-> << "0", "8", "0", "0", "6" >>, value |-> "connection_failure"],
    [key |-> << "0", "8", "P", "0", "1" >>, value |-> "protocol_violation"],
    [key |-> << "5", "7", "0", "1", "4" >>, value |-> "query_canceled"],
    [key |-> << "5", "7", "P", "0", "1" >>, value |-> "admin_shutdown"],
    [key |-> << "5", "7", "P", "0", "2" >>, value |-> "crash_shutdown"],
    [key |-> << "5", "7", "P", "0", "3" >>, value |-> "cannot_connect_now"],
    [key |-> << "5", "3", "0", "0", "0" >>, value |-> "insufficient_resources"],
    [key |-> << "5", "3", "1", "0", "0" >>, value |-> "disk_full"],
    [key |-> << "5", "3", "2", "0", "0" >>, value |-> "out_of_memory"],
    [key |-> << "5", "3", "3", "0", "0" >>, value |-> "too_many_connections"] }

retryableClasses ==
  { [key |-> << "0", "8" >>, value |-> "connection_exception"],
    [key |-> << "4", "0" >>, value |-> "transaction_rollback"],
    [key |-> << "5", "3" >>, value |-> "insufficient_resources"],
    [key |-> << "5", "7" >>, value |-> "operator_intervention"] }

\* the property names every object literal inherits from Object.prototype
ObjectPrototypeKeys ==
  { << "c", "o", "n", "s", "t", "r", "u", "c", "t", "o", "r" >>,
    << "t", "o", "S", "t", "r", "i", "n", "g" >>,
    << "v", "a", "l", "u", "e", "O", "f" >>,
    << "h", "a", "s", "O", "w", "n", "P", "r", "o", "p", "e", "r", "t", "y" >> }

OwnKeys(table) == { entry.key : entry \in table }

\* key in table: own properties and those inherited from Object.prototype
In(key, table) == key \in OwnKeys(table) \cup ObjectPrototypeKeys

\* a description: null, a listed name, or `${class name}_${code}`
Description(name, code) == [name |-> name, code |-> code]
Null == Description("null", << >>)

\* table[key]
Lookup(key, table) ==
  IF key \in OwnKeys(table)
    THEN Description((CHOOSE entry \in table : entry.key = key).value, << >>)
    ELSE Description("Object.prototype", key)

\* code.substring(0, 2)
ErrorClass(chars) == SubSeq(chars, 1, IF Len(chars) < 2 THEN Len(chars) ELSE 2)

\* getRetryableErrorDescription: the description of a retryable error, else null
getRetryableErrorDescription(error) ==
  IF ~Truthy(error) \/ TypeOf(error) # "object" THEN Null
  ELSE IF error.code.type # "string" THEN Null
  ELSE IF In(error.code.chars, RETRYABLE_PG_ERROR_CODES)
    THEN Lookup(error.code.chars, RETRYABLE_PG_ERROR_CODES)
  ELSE IF In(ErrorClass(error.code.chars), retryableClasses)
    THEN Description(Lookup(ErrorClass(error.code.chars), retryableClasses).name,
                     error.code.chars)
  ELSE Null

\* a classifier that goes on to the cause of every value it rejects
CauseToFollow_Always(error) == error.cause

\* getRetryableErrorDescription reads error.code only: it goes on to no cause
CauseToFollow(error) == NoCause

\* isRetryablePostgresError(error) is called
IsRetryablePostgresError(error) ==
  /\ pgPc \in {"idle", "returned"}
  /\ pgCalls < MaxPgCalls
  /\ pgCalls' = pgCalls + 1
  /\ pgError' = error
  /\ pgCurrent' = error
  /\ pgPc' = "examining"
  /\ UNCHANGED << isRetryable, txPc, txContext, txAttempts, txOutcomes,
                  txWarnings, txDelays, txResult >>
  /\ UNCHANGED outsideTransaction

\* the value under examination is described; the call returns unless there
\* is a cause to go on to
Examine ==
  /\ pgPc = "examining"
  /\ LET description == getRetryableErrorDescription(ErrorValues[pgCurrent])
         cause == CauseToFollow(ErrorValues[pgCurrent])
     IN IF description # Null \/ cause = NoCause
          THEN /\ pgPc' = "returned"
               /\ isRetryable' = (description # Null)
               /\ UNCHANGED pgCurrent
          ELSE /\ pgCurrent' = cause
               /\ UNCHANGED << pgPc, isRetryable >>
  /\ UNCHANGED << pgError, pgCalls, txPc, txContext, txAttempts, txOutcomes,
                  txWarnings, txDelays, txResult >>
  /\ UNCHANGED outsideTransaction

\* ------------------------------------------------ the retry loop
\* withRetry's options
maxRetries == 5
INITIAL_RETRY_DELAY == 1000

\* logging contexts of the callers
Contexts ==
  { [userId |-> "user-123", operationId |-> "op-456"],
    [userId |-> "", operationId |-> ""] }

\* errors db.transaction fails with: serialization failure, connection
\* failure, an unlisted class-40 code, unique violation, and a driver error
\* that wraps a serialization failure as its cause
BackendErrors == {5, 6, 7, 9, 15}

\* values the transaction callback returns
BackendValues == {"success", "result"}

Value(value) == [type |-> "value", value |-> value, error |-> 0]
Thrown(error) == [type |-> "error", value |-> "", error |-> error]

\* a retryIf that lets every error be retried
retryIf_Always(error) == TRUE

\* retryIf of withSerializableTransaction
retryIf(error) == getRetryableErrorDescription(error) # Null

\* a base delay that grows linearly
BaseDelayMs_Linear(attempt) == INITIAL_RETRY_DELAY * attempt

\* onRetry: the base delay before jitter of the given retry
BaseDelayMs(attempt) == INITIAL_RETRY_DELAY * 2 ^ (attempt - 1)

\* a warning that leaves the caller's context out
RetryWarning_NoContext(context, error, attempt) ==
  [context |-> [userId |-> "", operationId |-> ""], attempt |-> attempt,
   pgErrorCode |-> ErrorValues[error].code, baseDelayMs |-> BaseDelayMs(attempt),
   pgErrorDescription |-> getRetryableErrorDescription(ErrorValues[error]),
   error |-> error]

\* onRetry: the object passed to logger.warn
RetryWarning(context, error, attempt) ==
  LET errorCode == ErrorValues[error].code
      errorDescription == getRetryableErrorDescription(ErrorValues[error])
  IN [context |-> context,
      attempt |-> attempt,
      pgErrorCode |-> IF errorCode.type = "undefined"
                        THEN StringCode(<< "u", "n", "k", "n", "o", "w", "n" >>)
                        ELSE errorCode,
      pgErrorDescription |-> IF errorDescription = Null
                               THEN Description("unknown", << >>)
                               ELSE errorDescription,
      baseDelayMs |-> BaseDelayMs(attempt),
      error |-> error]

\* withRetry: the jitter applied to a delay, in percent
JitterPercents == {80, 100, 120}

\* withRetry: the delays it may sleep before the given retry
RetryDelays(retryDelayMs, attempt) ==
  { (retryDelayMs * 2 ^ (attempt - 1) * percent) \div 100 : percent \in JitterPercents }

\* withRetry: no attempt is left
AttemptsExhausted(attempts) == attempts >= maxRetries

\* withSerializableTransaction is called with the caller's context
WithSerializableTransaction(context) ==
  /\ txPc = "idle"
  /\ txPc' = "attempt"
  /\ txContext' = context
  /\ UNCHANGED << txAttempts, txOutcomes, txWarnings, txDelays, txResult,
                  pgPc, pgError, pgCurrent, isRetryable, pgCalls >>
  /\ UNCHANGED outsideTransaction

\* db.transaction commits: the callback's value is returned
TransactionSucceeds(value) ==
  /\ txPc = "attempt"
  /\ txAttempts' = txAttempts + 1
  /\ txOutcomes' = Append(txOutcomes, Value(value))
  /\ txResult' = Value(value)
  /\ txPc' = "returned"
  /\ UNCHANGED << txContext, txWarnings, txDelays,
                  pgPc, pgError, pgCurrent, isRetryable, pgCalls >>
  /\ UNCHANGED outsideTransaction

\* db.transaction throws: the error is rethrown when it is not retryable or
\* no attempt is left; otherwise onRetry logs a warning and the loop sleeps
TransactionFails(error, percent) ==
  /\ txPc = "attempt"
  /\ txAttempts' = txAttempts + 1
  /\ txOutcomes' = Append(txOutcomes, Thrown(error))
  /\ IF ~retryIf(ErrorValues[error]) \/ AttemptsExhausted(txAttempts + 1)
       THEN /\ txPc' = "thrown"
            /\ txResult' = Thrown(error)
            /\ UNCHANGED << txWarnings, txDelays >>
       ELSE /\ txWarnings' =
                 Append(txWarnings, RetryWarning(txContext, error, txAttempts + 1))
            /\ \E delay \in RetryDelays(INITIAL_RETRY_DELAY, txAttempts + 1) :
                 /\ delay = (INITIAL_RETRY_DELAY * 2 ^ txAttempts * percent) \div 100
                 /\ txDelays' = Append(txDelays, delay)
            /\ txPc' = "sleeping"
            /\ UNCHANGED txResult
  /\ UNCHANGED << txContext, pgPc, pgError, pgCurrent, isRetryable, pgCalls >>
  /\ UNCHANGED outsideTransaction

\* the retry delay has passed: the next attempt starts
RetryTimerFires ==
  /\ txPc = "sleeping"
  /\ txPc' = "attempt"
  /\ UNCHANGED << txContext, txAttempts, txOutcomes, txWarnings, txDelays,
                  txResult, pgPc, pgError, pgCurrent, isRetryable, pgCalls >>
  /\ UNCHANGED outsideTransaction

\* calls of the classifier on its own
NextClassifier ==
  \/ \E error \in ErrorIds : IsRetryablePostgresError(error)
  \/ Examine

SpecClassifier == Init /\ [][NextClassifier]_vars

\* a call that has started keeps running
SpecClassifierFair == SpecClassifier /\ WF_vars(Examine)

NextTransaction ==
  \/ \E context \in Contexts : WithSerializableTransaction(context)
  \/ \E value \in BackendValues : TransactionSucceeds(value)
  \/ \E error \in BackendErrors, percent \in JitterPercents :
       TransactionFails(error, percent)
  \/ RetryTimerFires

SpecTransaction == Init /\ [][NextTransaction]_vars

\* ------------------------------------------------- properties: helpers
\* the first two characters of the codes of classes 08, 40, 53 and 57
RetryableClassCodes ==
  { << "0", "8" >>, << "4", "0" >>, << "5", "3" >>, << "5", "7" >> }

\* the value is an object whose code is a string of a retryable class
HasRetryableCode(error) ==
  LET value == ErrorValues[error]
  IN /\ value.kind = "object"
     /\ value.code.type = "string"
     /\ Len(value.code.chars) >= 2
     /\ SubSeq(value.code.chars, 1, 2) \in RetryableClassCodes

\* the attempt failed with a retryable code
FailedRetryably(outcome) == outcome.type = "error" /\ HasRetryableCode(outcome.error)

\* the attempts of the transaction made so far all failed with retryable codes
AllFailedRetryably == \A i \in 1..Len(txOutcomes) : FailedRetryably(txOutcomes[i])

\* C14 (P-RETRY): at most 5 attempts are made; an attempt is followed by
\* another one exactly when it failed with a retryable code and fewer than 5
\* attempts were made; the fifth retryable failure and any failure with a
\* non-retryable code (in particular the first attempt's) is thrown at once.
C14_AttemptCount ==
  /\ txAttempts = Len(txOutcomes)
  /\ txAttempts <= 5
  /\ \A i \in 1..(Len(txOutcomes) - 1) : FailedRetryably(txOutcomes[i])
  /\ txAttempts >= 1 =>
       LET last == txOutcomes[txAttempts]
       IN /\ (FailedRetryably(last) /\ txAttempts < 5) => txPc \in {"sleeping", "attempt"}
          /\ (FailedRetryably(last) /\ txAttempts = 5) =>
                (txPc = "thrown" /\ txResult = last)
          /\ (last.type = "error" /\ ~HasRetryableCode(last.error)) =>
                (txPc = "thrown" /\ txResult = last)

\* C14 witness: the backend failed with retryable codes five times and the
\* fifth error was thrown
C14_Witness ==
  /\ txPc = "thrown" /\ txAttempts = 5 /\ AllFailedRetryably

\* C15: when the transaction returns after k retryable failures, it made
\* k + 1 attempts, returns the value of the last one, and logged exactly one
\* warning per retry with the caller's context, the number of the retry and
\* the code of the error that caused it.
C15_RetryThenSuccess ==
  txPc = "returned" =>
    LET k == Len(txOutcomes) - 1
    IN /\ txAttempts = k + 1
       /\ k <= 4
       /\ txOutcomes[k + 1].type = "value"
       /\ txResult = txOutcomes[k + 1]
       /\ Len(txWarnings) = k
       /\ \A i \in 1..k :
            /\ FailedRetryably(txOutcomes[i])
            /\ txWarnings[i].context = txContext
            /\ txWarnings[i].attempt = i
            /\ txWarnings[i].pgErrorCode = ErrorValues[txOutcomes[i].error].code

\* C15 witness: four retryable failures, then success, for a caller that
\* passed a user id and an operation id
C15_Witness ==
  /\ txPc = "returned" /\ txAttempts = 5
  /\ txContext.userId = "user-123"
  /\ txResult = Value("success")

\* the base delays logged so far
RECURSIVE BaseDelays(_)
BaseDelays(warnings) ==
  IF warnings = << >> THEN << >>
  ELSE << Head(warnings).baseDelayMs >> \o BaseDelays(Tail(warnings))

\* every retry so far: base delay 1s * 2^(k-1), applied delay within 20% of it
DelaysDoubleWithJitter ==
  /\ Len(txDelays) = Len(txWarnings)
  /\ \A k \in 1..Len(txWarnings) :
       /\ txWarnings[k].baseDelayMs = 1000 * 2 ^ (k - 1)
       /\ 5 * txDelays[k] >= 4 * txWarnings[k].baseDelayMs
       /\ 5 * txDelays[k] <= 6 * txWarnings[k].baseDelayMs

RECURSIVE CauseAtDepth(_, _)
CauseAtDepth(error, depth) ==
  IF depth = 0 \/ error = NoCause THEN error
  ELSE CauseAtDepth(ErrorValues[error].cause, depth - 1)

\* a value of the cause chain at one of the given depths has a retryable code
RetryableCodeAtDepths(error, depths) ==
  \E depth \in depths :
    /\ CauseAtDepth(error, depth) # NoCause
    /\ HasRetryableCode(CauseAtDepth(error, depth))

\* C17: a classified error is retryable if and only if it is an object whose
\* string code belongs to class 08, 40, 53 or 57.
C17_RetryableIffClass ==
  pgPc = "returned" => (isRetryable <=> HasRetryableCode(pgError))

\* C18: an error without a retryable code of its own is classified as
\* retryable when an error at depth 1 to 5 of its cause chain has one, and as
\* not retryable when the code is only found deeper than that.
C18_FollowsCauseChain ==
  (pgPc = "returned" /\ ~HasRetryableCode(pgError)) =>
    /\ RetryableCodeAtDepths(pgError, 1..5) => isRetryable
    /\ (/\ ~RetryableCodeAtDepths(pgError, 1..5)
        /\ RetryableCodeAtDepths(pgError, 6..8)) => ~isRetryable

\* C19: every call of isRetryablePostgresError returns, with a boolean.
C19_Terminates ==
  (pgPc = "examining") ~> (pgPc = "returned" /\ isRetryable \in BOOLEAN)

\* C19 witness: the call has returned for an error that is its own cause
C19_Witness ==
  /\ pgPc = "returned"
  /\ CauseAtDepth(pgError, 1) = pgError
  /\ isRetryable = FALSE

\* ======================================================================
\* The credit gate: settle(user, amount, operationId), a ledger mutation in a
\* serializable transaction that is retried on transient failures.
\* ======================================================================

\* a ledger that recognises no operation id
IsRepeat_Never(entries, operationId) == FALSE

\* the operation id already has a recorded result
IsRepeat(entries, operationId) == entries[operationId] # "none"

\* the result of charging the amount against the balance
ChargeResult(balance, amount) ==
  IF balance >= amount THEN "charged" ELSE "insufficient"

\* the ledger mutation of one transaction: a repeat changes nothing, a first
\* charge debits the balance when it suffices and records its result
LedgerMutation(operationId) ==
  IF IsRepeat(ledger, operationId)
    THEN UNCHANGED << creditBalance, ledger, charged >>
    ELSE LET amount == AmountOf(operationId)
             result == ChargeResult(creditBalance, amount)
         IN /\ ledger' = [ledger EXCEPT ![operationId] = result]
            /\ creditBalance' =
                 IF result = "charged" THEN creditBalance - amount ELSE creditBalance
            /\ charged' =
                 IF result = "charged"
                   THEN [charged EXCEPT ![operationId] = @ + amount]
                   ELSE charged

\* what the transaction returns: the prior result of a repeat, else the
\* result of the charge
SettleReturns(operationId) ==
  IF IsRepeat(ledger, operationId) THEN ledger[operationId]
  ELSE ChargeResult(creditBalance, AmountOf(operationId))

\* settle is invoked with an operation id
Settle(i, operationId) ==
  /\ settlePc[i] = "idle"
  /\ settlePc' = [settlePc EXCEPT ![i] = "attempt"]
  /\ settleOperationId' = [settleOperationId EXCEPT ![i] = operationId]
  /\ UNCHANGED << creditBalance, ledger, charged, settleAttempts, settleResult >>
  /\ UNCHANGED outsideCreditGate

\* the transaction of invocation i commits and its result is returned
SettleCommits(i) ==
  /\ settlePc[i] = "attempt"
  /\ LedgerMutation(settleOperationId[i])
  /\ settleResult' = [settleResult EXCEPT ![i] = SettleReturns(settleOperationId[i])]
  /\ settleAttempts' = [settleAttempts EXCEPT ![i] = @ + 1]
  /\ settlePc' = [settlePc EXCEPT ![i] = "returned"]
  /\ UNCHANGED settleOperationId
  /\ UNCHANGED outsideCreditGate

\* the transaction of invocation i fails with a retryable error: before the
\* commit (rolled back) or after it (the commit went through but the
\* connection failed); it is retried unless no attempt is left
SettleFails(i, committed) ==
  /\ settlePc[i] = "attempt"
  /\ IF committed
       THEN LedgerMutation(settleOperationId[i])
       ELSE UNCHANGED << creditBalance, ledger, charged >>
  /\ settleAttempts' = [settleAttempts EXCEPT ![i] = @ + 1]
  /\ settlePc' = [settlePc EXCEPT ![i] =
       IF AttemptsExhausted(settleAttempts[i] + 1) THEN "thrown" ELSE "attempt"]
  /\ UNCHANGED << settleOperationId, settleResult >>
  /\ UNCHANGED outsideCreditGate

NextCreditGate ==
  \/ \E i \in Invocations, operationId \in OperationIds : Settle(i, operationId)
  \/ \E i \in Invocations : SettleCommits(i)
  \/ \E i \in Invocations, committed \in BOOLEAN : SettleFails(i, committed)

SpecCreditGate == Init /\ [][NextCreditGate]_vars

\* C20 (P-IDEMPOTENT-SETTLE): however often settle is invoked with an
\* operation id, and however its transactions fail and are retried, the user
\* is charged for it once at most, exactly the amount when an invocation
\* returns `charged`, and every invocation returns the same result.
C20_SettleIdempotent ==
  /\ creditBalance + charged["op-1"] + charged["op-2"] = InitialBalance
  /\ \A operationId \in OperationIds :
       /\ charged[operationId] \in {0, AmountOf(operationId)}
       /\ \A i \in Invocations :
            (settlePc[i] = "returned" /\ settleOperationId[i] = operationId) =>
              /\ settleResult[i] \in {"charged", "insufficient"}
              /\ settleResult[i] = "charged" <=>
                   charged[operationId] = AmountOf(operationId)
              /\ \A j \in Invocations :
                   (settlePc[j] = "returned" /\ settleOperationId[j] = operationId)
                     => settleResult[j] = settleResult[i]

\* C20 witness: three invocations with the same operation id have returned
\* `charged`, one of them after a failed attempt, and the amount was
\* charged once
C20_Witness ==
  /\ \A i \in 1..3 :
       /\ settlePc[i] = "returned"
       /\ settleOperationId[i] = "op-1"
       /\ settleResult[i] = "charged"
  /\ \E i \in 1..3 : settleAttempts[i] >= 2
  /\ charged["op-1"] = AmountOf("op-1")
  /\ creditBalance = InitialBalance - AmountOf("op-1")

\* ======================================================= agent run tree
\* The orchestrator's loop over steps and the spawn of child runs.
\* initialSessionState and applyOverridesToSessionState are translated from
\* the SDK's source; the loop itself, runChild and the credit aggregation
\* are modelled from the design document (sections 4.4, 4.6 and 7).

\* ---- the step budget
\* the maxAgentSteps option: absent, or a number
MaxAgentStepsOptions ==
  {[defined |-> FALSE, value |-> 0]} \cup
  {[defined |-> TRUE, value |-> n] : n \in 0..MaxAgentSteps}

\* if (maxAgentSteps) of initialSessionState: 0 and undefined are falsy
StepsOfInitialSessionState(maxAgentSteps) ==
  IF maxAgentSteps.defined /\ maxAgentSteps.value # 0
    THEN maxAgentSteps.value
    ELSE DefaultStepsRemaining

\* if (overrides.maxAgentSteps !== undefined) of applyOverridesToSessionState
StepsOfOverrides(maxAgentSteps, current) ==
  IF maxAgentSteps.defined THEN maxAgentSteps.value ELSE current

BudgetAfterStep_Kept(stepsRemaining) == stepsRemaining

\* decrement budget first
BudgetAfterStep(stepsRemaining) == stepsRemaining - 1

\* ---- credits
ChildCredits_Direct(child) == child.directCreditsUsed

\* what a finished child hands up to its parent
ChildCredits(child) == child.creditsUsed

ChildrenOf(p) == {c \in RunIds : agentRuns[c].parent = p}

\* children whose runChild has returned to the parent's spawn handler
ReturnedChildrenOf(p) == {c \in ChildrenOf(p) : agentRuns[c].pc = "returned"}

\* spawn_agents (sync mode) has awaited every child it started
ChildrenAwaited(p) == ChildrenOf(p) = ReturnedChildrenOf(p)

\* ---- failures of a step
\* exceptions that leave processStream: the throw for an unhandled chunk
\* type, a rejected previousToolCallFinished
ThrownByProcessStream == {"Unhandled chunk type", "tool promise rejected"}

StepFailures == ThrownByProcessStream \cup {"LLMTransport", "OutOfCredits"}

CaughtAtBoundary_Never(failure) == FALSE

\* the orchestrator turns every failure of a step into a structured output
CaughtAtBoundary(failure) == failure \in StepFailures

ErrorOutput(failure) ==
  IF failure = "OutOfCredits"
    THEN [type |-> "out_of_credits", message |-> failure]
    ELSE [type |-> "error", message |-> failure]

\* ---- actions
\* initialSessionState({maxAgentSteps}): the main agent's AgentState
InitialSessionState(maxAgentSteps) ==
  /\ agentRuns[MainAgent].pc = "unspawned"
  /\ LET steps == StepsOfInitialSessionState(maxAgentSteps) IN
       agentRuns' = [agentRuns EXCEPT ![MainAgent] =
                       [@ EXCEPT !.pc = "created", !.stepsRemaining = steps,
                                 !.budget = steps]]
  /\ UNCHANGED << escaped, outsideOrchestrator >>

\* applyOverridesToSessionState(cwd, base, {maxAgentSteps}), then the run
ApplyOverridesToSessionState(maxAgentSteps) ==
  /\ agentRuns[MainAgent].pc = "created"
  /\ LET steps == StepsOfOverrides(maxAgentSteps,
                                   agentRuns[MainAgent].stepsRemaining) IN
       agentRuns' = [agentRuns EXCEPT ![MainAgent] =
                       [@ EXCEPT !.pc = "loop", !.stepsRemaining = steps,
                                 !.budget = steps]]
  /\ UNCHANGED << escaped, outsideOrchestrator >>

\* top of the loop over steps
LoopAgentSteps(r) ==
  /\ agentRuns[r].pc = "loop"
  /\ agentRuns' = [agentRuns EXCEPT ![r] =
       IF @.stepsRemaining = 0
         THEN [@ EXCEPT !.pc = "ended",
                        !.output = [type |-> "max_steps", message |-> ""]]
         ELSE [@ EXCEPT !.pc = "step",
                        !.stepsRemaining = BudgetAfterStep(@),
                        !.stepsTaken = @ + 1]]
  /\ UNCHANGED << escaped, outsideOrchestrator >>

\* onCostCalculated(credits): a charge of the run's own
OnCostCalculated(r, credits) ==
  /\ agentRuns[r].pc = "step"
  /\ agentRuns[r].directCreditsUsed + credits <= MaxDirectCredits
  /\ agentRuns' = [agentRuns EXCEPT ![r] =
                     [@ EXCEPT !.creditsUsed = @ + credits,
                               !.directCreditsUsed = @ + credits]]
  /\ UNCHANGED << escaped, outsideOrchestrator >>

\* spawn_agents({agents: [one agent]}) in a step of p: runChild creates the
\* child's AgentState and enters its loop.  The handler of a later
\* spawn_agents call starts once the earlier call has finished.
RunChild(p, c) ==
  /\ agentRuns[p].pc = "step"
  /\ ChildrenAwaited(p)
  /\ agentRuns[c].pc = "unspawned"
  /\ c # MainAgent
  /\ \A other \in RunIds : other < c => agentRuns[other].pc # "unspawned"
  /\ agentRuns' = [agentRuns EXCEPT ![c] =
                     [@ EXCEPT !.pc = "loop", !.parent = p]]
  /\ UNCHANGED << escaped, outsideOrchestrator >>

\* the step is committed
StepCommits(r, endsStep) ==
  /\ agentRuns[r].pc = "step"
  /\ ChildrenAwaited(r)
  /\ agentRuns' = [agentRuns EXCEPT ![r] =
       IF endsStep
         THEN [@ EXCEPT !.pc = "ended",
                        !.output = [type |-> "completed", message |-> ""]]
         ELSE [@ EXCEPT !.pc = "loop"]]
  /\ UNCHANGED << escaped, outsideOrchestrator >>

\* the step fails; an LLM transport error is retried once when the budget
\* allows, every other failure ends the run
StepFails(r, failure) ==
  /\ agentRuns[r].pc = "step"
  /\ ChildrenAwaited(r)
  /\ LET retry == failure = "LLMTransport" /\ agentRuns[r].stepsRemaining > 1
                    /\ ~agentRuns[r].retried IN
       /\ agentRuns' = [agentRuns EXCEPT ![r] =
            IF retry THEN [@ EXCEPT !.pc = "loop", !.retried = TRUE]
            ELSE IF CaughtAtBoundary(failure)
              THEN [@ EXCEPT !.pc = "ended", !.output = ErrorOutput(failure)]
              ELSE [@ EXCEPT !.pc = "ended"]]
       /\ escaped' = (escaped \/ (~retry /\ ~CaughtAtBoundary(failure)))
  /\ UNCHANGED outsideOrchestrator

\* what is left of a run once it has returned: its AgentState is destroyed,
\* the run tree keeps its place and the credits it reported
Destroyed(agentState) ==
  [UnspawnedRun EXCEPT !.pc = "returned", !.parent = agentState.parent,
                       !.creditsUsed = agentState.creditsUsed]

\* the run returns its output; a child's credits flow up to its parent
RunReturns(r) ==
  /\ agentRuns[r].pc = "ended"
  /\ LET p == agentRuns[r].parent IN
       agentRuns' =
         IF p = NoParent
           THEN [agentRuns EXCEPT ![r] = Destroyed(@)]
           ELSE [agentRuns EXCEPT
                   ![r] = Destroyed(@),
                   ![p].creditsUsed = @ + ChildCredits(agentRuns[r])]
  /\ UNCHANGED << escaped, outsideOrchestrator >>

NextOrchestrator ==
  \/ \E maxAgentSteps \in MaxAgentStepsOptions :
        InitialSessionState(maxAgentSteps)
  \/ \E maxAgentSteps \in MaxAgentStepsOptions :
        ApplyOverridesToSessionState(maxAgentSteps)
  \/ \E r \in RunIds : LoopAgentSteps(r)
  \/ \E r \in RunIds, credits \in 1..MaxDirectCredits :
        OnCostCalculated(r, credits)
  \/ \E p, c \in RunIds : RunChild(p, c)
  \/ \E r \in RunIds, endsStep \in BOOLEAN : StepCommits(r, endsStep)
  \/ \E r \in RunIds, failure \in StepFailures : StepFails(r, failure)
  \/ \E r \in RunIds : RunReturns(r)

SpecOrchestrator == Init /\ [][NextOrchestrator]_vars

\* ---- properties of the run tree
RECURSIVE SumOfCredits(_)
SumOfCredits(children) ==
  IF children = {} THEN 0
  ELSE LET c == CHOOSE x \in children : TRUE IN
         agentRuns[c].creditsUsed + SumOfCredits(children \ {c})

\* C21: in every run tree, once children have completed, the parent's
\* total credits (creditsUsed) equal its direct credits (directCreditsUsed)
\* plus the sum of the total credits of its completed children, and a
\* run's direct credits never exceed its total credits.
C21_CreditsAggregate ==
  \A p \in RunIds :
    agentRuns[p].pc \notin {"unspawned", "returned"} =>
      /\ agentRuns[p].creditsUsed =
           agentRuns[p].directCreditsUsed
             + SumOfCredits(ReturnedChildrenOf(p))
      /\ agentRuns[p].directCreditsUsed <= agentRuns[p].creditsUsed

\* a three-level tree: the main agent has charges of its own and a returned
\* child whose total holds the credits of a grandchild
C21_Witness ==
  /\ agentRuns[MainAgent].pc = "ended"
  /\ agentRuns[MainAgent].directCreditsUsed = 1
  /\ agentRuns[MainAgent].creditsUsed = 3
  /\ agentRuns[2].parent = MainAgent /\ agentRuns[2].pc = "returned"
  /\ agentRuns[2].creditsUsed = 2
  /\ agentRuns[3].parent = 2 /\ agentRuns[3].pc = "returned"
  /\ agentRuns[3].creditsUsed = 1

\* ====================================== further properties of processStream
\* the handlers of the step that resolved with an output carrying an error
FailedHandlers ==
  { k \in 1..Len(toolPromises) :
      toolPromises[k].state = "settled" /\ toolPromises[k].output \in ErrorOutputs }

\* the tool message recorded for handler k at position i, next to its call
RecordedPair(k, i) ==
  /\ i <= Len(toolCallsToAddToMessageHistory)
  /\ toolCallsToAddToMessageHistory[i].toolCallId = toolPromises[k].toolCallId
  /\ toolResultsToAddToMessageHistory[i].toolCallId = toolPromises[k].toolCallId
  /\ toolResultsToAddToMessageHistory[i].output = toolPromises[k].output

\* C22: a handler that fails (its port returns an error or throws, or the
\* handler itself throws) still yields a tool message that carries the
\* error and is paired with its tool call; the failure does not flag the
\* step, and once the step is committed the pair is in the history.
C22_HandlerErrorYieldsToolMessage ==
  \A k \in FailedHandlers :
    /\ \E i \in 1..Len(toolResultsToAddToMessageHistory) : RecordedPair(k, i)
    /\ EventPositions("error", toolPromises[k].toolCallId) = {}
    /\ (pc = "done" /\ ~aborted) => Committed(k)

\* C22 witness: the documentation fetch of a read_docs call failed, the
\* following tool call ran after it and the step was committed with both
C22_Witness ==
  /\ pc = "done" /\ ~aborted /\ ~hadToolCallError
  /\ \E k \in FailedHandlers, later \in 1..Len(toolPromises) :
       /\ toolPromises[k].toolName = "read_docs"
       /\ k < later
       /\ Committed(later)
       /\ toolPromises[later].output = "json"

\* C23: a handler's result is never recorded before the result of the tool
\* call parsed before it: a handler has resolved only if the promise it was
\* chained on (previousToolCallFinished at its dispatch) has resolved, and
\* the recorded results are in parse order, whatever the order in which
\* the handlers' own work finished.
C23_ResultAfterPredecessor ==
  /\ \A k \in 1..Len(toolPromises) :
       toolPromises[k].state = "settled" => Resolved(toolPromises[k].prev)
  /\ \A i, j \in 1..Len(toolResultsToAddToMessageHistory) :
       i < j => toolResultsToAddToMessageHistory[i].toolCallId
                  < toolResultsToAddToMessageHistory[j].toolCallId

\* C23 witness: the documentation fetch of a read_docs call finished before
\* the work of the call parsed before it, and both results are recorded
C23_Witness ==
  \E j, k \in 1..Len(toolPromises) :
    /\ j < k
    /\ toolPromises[k].toolName = "read_docs"
    /\ toolPromises[k].prev = j
    /\ toolPromises[k].workDoneAt < toolPromises[j].workDoneAt
    /\ toolPromises[j].state = "settled" /\ toolPromises[k].state = "settled"
    /\ \E a, b \in 1..Len(toolResultsToAddToMessageHistory) :
         /\ a < b
         /\ toolResultsToAddToMessageHistory[a].toolCallId = toolPromises[j].toolCallId
         /\ toolResultsToAddToMessageHistory[b].toolCallId = toolPromises[k].toolCallId

\* ============================================================= telemetry
\* startAgentRun, addAgentStep and finishAgentRun of the SDK's database
\* port: each posts to the backend and reports the outcome to its caller.

\* what fetch(url, ...) gives the caller: a rejection, or a response with a
\* status and a body (not JSON, the JSON null, an object without the id,
\* an object with the id)
BodyKinds == {"malformed", "null", "object", "id"}

Responses ==
  {[kind |-> "rejects", ok |-> FALSE, body |-> "malformed"]} \cup
  {[kind |-> "response", ok |-> ok, body |-> body] :
      ok \in BOOLEAN, body \in BodyKinds}

\* outcome of a call: the value returned, whether the call threw to its
\* caller, whether logger.error was called
Returned(fn, value, logged) ==
  [fn |-> fn, value |-> value, threw |-> FALSE, logged |-> logged]

Raised(fn) ==
  [fn |-> fn, value |-> "undefined", threw |-> TRUE, logged |-> FALSE]

\* response.json(): throws on a body that is not JSON
JsonThrows(response) == response.body = "malformed"

\* responseBody?.runId, responseBody?.stepId: only an object with the id has it
HasId(response) == response.body = "id"

CatchAndLog_Rethrows(outcome, value) == outcome

\* try { ... } catch (error) { logger.error(...); return value }
CatchAndLog(outcome, value) ==
  IF outcome.threw
    THEN Returned(outcome.fn, value, TRUE)
    ELSE outcome

\* the try block of startAgentRun
startAgentRunTry(response) ==
  IF response.kind = "rejects" THEN Raised("startAgentRun")
  ELSE IF ~response.ok THEN Returned("startAgentRun", "null", TRUE)
  ELSE IF JsonThrows(response) THEN Raised("startAgentRun")
  ELSE IF ~HasId(response) THEN Returned("startAgentRun", "null", TRUE)
  ELSE Returned("startAgentRun", "id", FALSE)

startAgentRun(response) == CatchAndLog(startAgentRunTry(response), "null")

\* the try block of finishAgentRun: the body is not read
finishAgentRunTry(response) ==
  IF response.kind = "rejects" THEN Raised("finishAgentRun")
  ELSE IF ~response.ok THEN Returned("finishAgentRun", "undefined", TRUE)
  ELSE Returned("finishAgentRun", "undefined", FALSE)

finishAgentRun(response) ==
  CatchAndLog(finishAgentRunTry(response), "undefined")

\* the try block of addAgentStep: the body is parsed before response.ok is
\* looked at, and responseBody.stepId is read without `?.`, which throws a
\* TypeError on a null body
addAgentStepTry(response) ==
  IF response.kind = "rejects" THEN Raised("addAgentStep")
  ELSE IF JsonThrows(response) THEN Raised("addAgentStep")
  ELSE IF ~response.ok THEN Returned("addAgentStep", "null", TRUE)
  ELSE IF response.body = "null" THEN Raised("addAgentStep")
  ELSE IF ~HasId(response) THEN Returned("addAgentStep", "null", TRUE)
  ELSE Returned("addAgentStep", "id", FALSE)

addAgentStep(response) == CatchAndLog(addAgentStepTry(response), "null")

\* one call: the response drawn and the outcome reported
TelemetryCall(response, outcome) ==
  /\ Len(telemetryLog) < MaxTelemetryCalls
  /\ telemetryLog' = Append(telemetryLog,
                            [response |-> response, outcome |-> outcome])
  /\ UNCHANGED outsideTelemetry

StartAgentRun(response) == TelemetryCall(response, startAgentRun(response))

AddAgentStep(response) == TelemetryCall(response, addAgentStep(response))

FinishAgentRun(response) == TelemetryCall(response, finishAgentRun(response))

NextTelemetry ==
  \/ \E response \in Responses : StartAgentRun(response)
  \/ \E response \in Responses : AddAgentStep(response)
  \/ \E response \in Responses : FinishAgentRun(response)

SpecTelemetry == Init /\ [][NextTelemetry]_vars

\* the request failed, came back with a non-OK status, or (for the calls
\* that read an id from it) its body does not carry the id
TelemetryFailed(fn, response) ==
  \/ response.kind = "rejects"
  \/ ~response.ok
  \/ fn # "finishAgentRun" /\ response.body # "id"

\* C24: startAgentRun, addAgentStep and finishAgentRun never throw to their
\* caller; when the request fails, returns a non-OK status or a malformed
\* body, the failure is logged and null (nothing, for finishAgentRun) is
\* returned; otherwise the id (nothing, for finishAgentRun) is returned.
C24_TelemetryNeverThrows ==
  \A i \in 1..Len(telemetryLog) :
    LET call == telemetryLog[i]
        fn == call.outcome.fn
        nothing == IF fn = "finishAgentRun" THEN "undefined" ELSE "null"
    IN /\ ~call.outcome.threw
       /\ IF TelemetryFailed(fn, call.response)
            THEN call.outcome.logged /\ call.outcome.value = nothing
            ELSE /\ ~call.outcome.logged
                 /\ call.outcome.value =
                      IF fn = "finishAgentRun" THEN "undefined" ELSE "id"

\* C24 witness: addAgentStep got an OK response whose body is the JSON null
\* (reading responseBody.stepId throws inside the try block) and
\* startAgentRun's fetch was rejected; both returned null
C24_Witness ==
  /\ Len(telemetryLog) = 2
  /\ telemetryLog[1].outcome.fn = "addAgentStep"
  /\ telemetryLog[1].response = [kind |-> "response", ok |-> TRUE, body |-> "null"]
  /\ telemetryLog[1].outcome.value = "null"
  /\ telemetryLog[2].outcome.fn = "startAgentRun"
  /\ telemetryLog[2].response.kind = "rejects"
  /\ telemetryLog[2].outcome.value = "null"

\* ============================================================ free agents
\* isFreeAgent and the allowlist are translated from the constants' source;
\* parseAgentId (util/agent-id-parsing) is imported by it and is modelled
\* from the agent identifier syntax of the design document (section 6).
\* An identifier is a sequence of tokens: names and the separators / and @.

FREE_TIER_AGENTS ==
  {"file-picker", "file-picker-max", "file-lister", "researcher-web",
   "researcher-docs"}

\* names that occur in identifiers: agent ids, a publisher, a version
Names == FREE_TIER_AGENTS \cup {"base", "codebuff", "1.0.0"}

\* the accepted forms of an agent id: bare id, id@version, publisher/id,
\* publisher/id@version
AcceptedForms(id) ==
  {<< id >>}
    \cup {<< id, "@", version >> : version \in Names}
    \cup {<< publisher, "/", id >> : publisher \in Names}
    \cup {<< publisher, "/", id, "@", version >> :
            publisher \in Names, version \in Names}

\* the identifiers isFreeAgent is called with: every name as the id, in
\* every accepted form
AgentIds == UNION {AcceptedForms(id) : id \in Names}

Positions(tokens, separator) ==
  {i \in 1..Len(tokens) : tokens[i] = separator}

NoAgentId == << >>

\* agentNameWithVersion.match(/^(.+)@(.+)$/): the first group is greedy, so
\* the id ends at the last @ that has something on both sides
IdOf(agentNameWithVersion) ==
  LET splits == {i \in Positions(agentNameWithVersion, "@") :
                   1 < i /\ i < Len(agentNameWithVersion)}
  IN IF splits = {} THEN agentNameWithVersion
     ELSE SubSeq(agentNameWithVersion, 1,
                 (CHOOSE i \in splits : \A j \in splits : j <= i) - 1)

\* parseAgentId(fullAgentId).agentId: [publisher/]id[@version]
parseAgentId(id) ==
  LET slashes == Positions(id, "/") IN
    IF Cardinality(slashes) = 0
      THEN IF id = << >> THEN NoAgentId ELSE IdOf(id)
    ELSE IF Cardinality(slashes) = 1
      THEN LET slash == CHOOSE i \in slashes : TRUE
               publisherId == SubSeq(id, 1, slash - 1)
               agentNameWithVersion == SubSeq(id, slash + 1, Len(id))
           IN IF publisherId = << >> \/ agentNameWithVersion = << >>
                THEN NoAgentId
                ELSE IdOf(agentNameWithVersion)
    ELSE NoAgentId

\* FREE_TIER_AGENTS.has(agentId): the id is one of the listed names
InAllowlist(agentId) ==
  Len(agentId) = 1 /\ agentId[1] \in FREE_TIER_AGENTS

isFreeAgent_Unparsed(id) == InAllowlist(id)

isFreeAgent(id) ==
  LET agentId == parseAgentId(id) IN
    IF agentId # NoAgentId THEN InAllowlist(agentId) ELSE FALSE

IsFreeAgent(id) ==
  /\ fullAgentId' = id
  /\ freeAgent' = isFreeAgent(id)
  /\ UNCHANGED outsideFreeAgent

NextFreeAgent == \E id \in AgentIds : IsFreeAgent(id)

SpecFreeAgent == Init /\ [][NextFreeAgent]_vars

\* C25: isFreeAgent returns true exactly for the agents whose bare id is in
\* the allowlist, in whichever accepted form the id is written (bare id,
\* id@version, publisher/id, publisher/id@version), and false for every
\* other agent id.
C25_FreeExactlyForAllowlist ==
  freeAgent <=> \E id \in FREE_TIER_AGENTS : fullAgentId \in AcceptedForms(id)

\* C25 witness: publisher/id@version of a listed agent is free
C25_Witness ==
  /\ fullAgentId = << "codebuff", "/", "file-picker", "@", "1.0.0" >>
  /\ freeAgent

\* ====================================== further properties of the run tree
\* the explicit terminal states of a run
TerminalStates == {"completed", "max_steps", "out_of_credits"}

NullUserInfo == [kind |-> "null", id |-> "", email |-> ""]

UserInfos ==
  { [kind |-> "user", id |-> "user-1", email |-> email] :
      email \in {"a@example.com", "b@example.com"} }

\* the fields a caller asks for
FieldSets == {{"id"}, {"id", "email"}}

\* how a fetch of /api/v1/me ends: an OK response whose body parses, a
\* response that is not OK, a rejected fetch, a body that does not parse
MeResponses ==
  { [kind |-> "ok", body |-> body] : body \in UserInfos \cup {NullUserInfo} }
    \cup { [kind |-> kind, body |-> NullUserInfo] :
             kind \in {"not-ok", "rejects", "json-throws"} }

\* Object.fromEntries(fields.map((field) => [field, userInfo[field]])), and
\* null for a null entry
SelectFields(userInfo, fields) ==
  IF userInfo.kind = "null"
    THEN userInfo
    ELSE [kind |-> "user",
          id |-> IF "id" \in fields THEN userInfo.id ELSE "",
          email |-> IF "email" \in fields THEN userInfo.email ELSE ""]

\* getUserInfoFromApiKey up to its first await: a key in the cache is
\* answered from the cache, any other key starts a fetch
getUserInfoFromApiKey(apiKey, fields) ==
  /\ Len(lookups) < MaxLookups
  /\ lookups' = Append(lookups,
       IF userInfoCache[apiKey].kind # "absent"
         THEN [pc |-> "returned", apiKey |-> apiKey, fields |-> fields,
               via |-> "cache",
               result |-> SelectFields(userInfoCache[apiKey], fields)]
         ELSE [pc |-> "fetching", apiKey |-> apiKey, fields |-> fields,
               via |-> "none", result |-> NoUserInfo])
  /\ UNCHANGED << userInfoCache, outsideUserInfo >>

\* a getUserInfoFromApiKey that stores null for a failed lookup
FetchSettles_CachesFailure(i, response) ==
  /\ lookups[i].pc = "fetching"
  /\ userInfoCache' =
       [userInfoCache EXCEPT ![lookups[i].apiKey] = response.body]
  /\ lookups' = [lookups EXCEPT
       ![i].pc = "returned",
       ![i].via = IF response.kind = "ok" THEN "network" ELSE "failed",
       ![i].result = SelectFields(response.body, lookups[i].fields)]
  /\ UNCHANGED outsideUserInfo

\* the rest of getUserInfoFromApiKey, once the fetch has settled: only an OK
\* response whose body parses is stored, and the call answers from the entry
FetchSettles(i, response) ==
  /\ lookups[i].pc = "fetching"
  /\ IF response.kind = "ok"
       THEN /\ userInfoCache' =
                 [userInfoCache EXCEPT ![lookups[i].apiKey] = response.body]
            /\ lookups' = [lookups EXCEPT
                 ![i].pc = "returned",
                 ![i].via = "network",
                 ![i].result = SelectFields(response.body, lookups[i].fields)]
       ELSE /\ lookups' = [lookups EXCEPT
                 ![i].pc = "returned",
                 ![i].via = "failed",
                 ![i].result = NullUserInfo]
            /\ UNCHANGED userInfoCache
  /\ UNCHANGED outsideUserInfo

NextUserInfo ==
  \/ \E apiKey \in ApiKeys : \E fields \in FieldSets :
       getUserInfoFromApiKey(apiKey, fields)
  \/ \E i \in 1..Len(lookups) : \E response \in MeResponses :
       FetchSettles(i, response)

SpecUserInfo == Init /\ [][NextUserInfo]_vars

\* the lookups that have stored the entry of a key
WritersOf(apiKey) ==
  { i \in 1..Len(lookups) :
      lookups[i].apiKey = apiKey /\ lookups[i].via = "network" }

\* the entry of every key has been stored by at most one lookup
WrittenByOneLookup ==
  \A apiKey \in ApiKeys : Cardinality(WritersOf(apiKey)) <= 1

\* a call that has returned the entry of a key would be given the same
\* answer by the cache now
LaterCallsObserveSameValue ==
  \A i \in 1..Len(lookups) :
    (lookups[i].pc = "returned" /\ lookups[i].via # "failed")
      => lookups[i].result =
           SelectFields(userInfoCache[lookups[i].apiKey], lookups[i].fields)

\* C28: the user-info cache has single-writer semantics per key: whatever
\* the interleaving of the calls made with one API key, the entry of that key
\* is written by one lookup and later calls observe that same value
C28_SingleWriter == WrittenByOneLookup /\ LaterCallsObserveSameValue

\* ---------------------------------------------------- the status indicator

\* StreamStatus
StreamStatuses == {"idle", "waiting", "streaming"}

\* the values of clipboardMessage?: string | null
ClipboardMessages ==
  { [type |-> "undefined", text |-> ""], NoClipboardMessage }
    \cup { [type |-> "string", text |-> text] :
             text \in {"", "Copied!", "Failed to copy"} }

\* StatusIndicatorStateArgs
StatusIndicatorStateArgs ==
  [clipboardMessage : ClipboardMessages,
   streamStatus : StreamStatuses,
   nextCtrlCWillExit : BOOLEAN,
   isConnected : BOOLEAN]

\* if (clipboardMessage): undefined, null and the empty string are falsy
TruthyMessage(clipboardMessage) ==
  clipboardMessage.type = "string" /\ clipboardMessage.text # ""

\* a mutant of getStatusIndicatorState: the connection is tested before the
\* clipboard message
getStatusIndicatorState_ConnectingFirst(args) ==
  IF args.nextCtrlCWillExit THEN [kind |-> "ctrlC", message |-> ""]
  ELSE IF ~args.isConnected THEN [kind |-> "connecting", message |-> ""]
  ELSE IF TruthyMessage(args.clipboardMessage)
    THEN [kind |-> "clipboard", message |-> args.clipboardMessage.text]
  ELSE IF args.streamStatus = "waiting"
    THEN [kind |-> "waiting", message |-> ""]
  ELSE IF args.streamStatus = "streaming"
    THEN [kind |-> "streaming", message |-> ""]
  ELSE [kind |-> "idle", message |-> ""]

\* getStatusIndicatorState: the first test that succeeds decides the state
getStatusIndicatorState(args) ==
  IF args.nextCtrlCWillExit THEN [kind |-> "ctrlC", message |-> ""]
  ELSE IF TruthyMessage(args.clipboardMessage)
    THEN [kind |-> "clipboard", message |-> args.clipboardMessage.text]
  ELSE IF ~args.isConnected THEN [kind |-> "connecting", message |-> ""]
  ELSE IF args.streamStatus = "waiting"
    THEN [kind |-> "waiting", message |-> ""]
  ELSE IF args.streamStatus = "streaming"
    THEN [kind |-> "streaming", message |-> ""]
  ELSE [kind |-> "idle", message |-> ""]

\* the parent renders StatusIndicator with new props
StatusIndicatorProps(args) ==
  /\ statusIndicatorArgs' = args
  /\ statusIndicatorState' = NotRendered
  /\ UNCHANGED outsideStatusIndicator

\* StatusIndicator computes its state from the props
StatusIndicator ==
  /\ statusIndicatorState = NotRendered
  /\ statusIndicatorState' = getStatusIndicatorState(statusIndicatorArgs)
  /\ UNCHANGED << statusIndicatorArgs, outsideStatusIndicator >>

NextStatusIndicator ==
  \/ \E args \in StatusIndicatorStateArgs : StatusIndicatorProps(args)
  \/ StatusIndicator

SpecStatusIndicator == Init /\ [][NextStatusIndicator]_vars

\* the conditions of the states, from the highest priority to the lowest
Priority ==
  << "ctrlC", "clipboard", "connecting", "waiting", "streaming", "idle" >>

\* the condition of a state holds for the arguments; a clipboard message is
\* a string with at least one character, and idle always holds
Holds(kind, args) ==
  CASE kind = "ctrlC" -> args.nextCtrlCWillExit
    [] kind = "clipboard" ->
         /\ args.clipboardMessage.type = "string"
         /\ args.clipboardMessage.text \notin {""}
    [] kind = "connecting" -> ~args.isConnected
    [] kind = "waiting" -> args.streamStatus = "waiting"
    [] kind = "streaming" -> args.streamStatus = "streaming"
    [] kind = "idle" -> TRUE

\* the state whose condition holds and no condition of higher priority does
HighestPriority(args) ==
  Priority[CHOOSE i \in 1..Len(Priority) :
             /\ Holds(Priority[i], args)
             /\ \A j \in 1..(i - 1) : ~Holds(Priority[j], args)]

\* C29: for every combination of its inputs getStatusIndicatorState returns
\* the state of the highest-priority condition that holds, in the order
\* ctrl-c warning > clipboard message > connecting > waiting > streaming >
\* idle; the clipboard state carries the message
C29_HighestPriorityState ==
  statusIndicatorState # NotRendered =>
    /\ statusIndicatorState.kind = HighestPriority(statusIndicatorArgs)
    /\ statusIndicatorState.kind = "clipboard" =>
         statusIndicatorState.message =
           statusIndicatorArgs.clipboardMessage.text

\* C29 witness: a clipboard message is shown while the CLI is disconnected
\* and waiting, all three lower conditions holding at once
C29_Witness ==
  /\ statusIndicatorState = [kind |-> "clipboard", message |-> "Copied!"]
  /\ ~statusIndicatorArgs.isConnected
  /\ statusIndicatorArgs.streamStatus = "waiting"
  /\ ~statusIndicatorArgs.nextCtrlCWillExit

\* ------------------------------------------- termination of processStream

RECURSIVE WaitsOnStreamEnd(_)
\* promise p cannot resolve before streamDone does: it is streamDone, still
\* unresolved, or the promise of a handler chained on such a promise
WaitsOnStreamEnd(p) ==
  \/ p = StreamDonePromise /\ ~streamDone
  \/ p >= 1 /\ toolPromises[p].state = "pending"
            /\ WaitsOnStreamEnd(toolPromises[p].prev)

\* C30: with no abort processStream always reaches the commit, for every
\* sequence of structured and inline tool calls, a structured call followed
\* by an inline call included: no handler waits on the end of the stream
\* while the stream waits on that handler
C30_NoHandlerWaitsOnStreamItBlocks ==
  (pc = "awaitXml" /\ ~aborted) => ~WaitsOnStreamEnd(awaiting)

\* ------------------------------------- pairing in the committed history

\* every assistant tool-call message of history h has a tool message with
\* its toolCallId
CallsHaveResults(h) ==
  \A i \in 1..Len(h) :
    h[i].type = "tool-call" => ToolMessagePositions(h, h[i].toolCallId) # {}

\* every result in the step's result list is in the committed history: none
\* was recorded after the commit was built
NoResultAfterCommit ==
  \A j \in 1..Len(toolResultsToAddToMessageHistory) :
    ToolMessagePositions(messageHistory,
      toolResultsToAddToMessageHistory[j].toolCallId) # {}

\* C31: in every committed history, one committed after an abort included,
\* each assistant tool-call message has a tool message with the same
\* toolCallId, and no result is recorded into the step's result list after
\* the commit has been built
C31_CommittedPairsNoLateResult ==
  pc = "done" => CallsHaveResults(messageHistory) /\ NoResultAfterCommit

\* ------------------------------------------- the first handler of a step

\* every tool call the step has dispatched is structured
AllStructured ==
  \A k \in 1..Len(toolPromises) : ~toolPromises[k].isXmlMode

\* C32: in a step whose tool calls are all structured the first handler is
\* chained on streamDone, so no tool result is recorded before the stream
\* has terminated; in a step whose first tool call is inline that handler
\* starts from an already-resolved predecessor and does not wait for the
\* end of the stream
C32_FirstHandlerChaining ==
  Len(toolPromises) >= 1 =>
    /\ AllStructured =>
         /\ toolPromises[1].prev = StreamDonePromise
         /\ toolResultsToAddToMessageHistory # << >> => streamDone
    /\ toolPromises[1].isXmlMode =>
         /\ toolPromises[1].prev = ResolvedPromise
         /\ ~WaitsOnStreamEnd(1)

\* C32 witness: a step of two structured calls whose results were both
\* recorded, after the stream had terminated
C32_Witness ==
  /\ Len(toolPromises) = 2 /\ AllStructured
  /\ Len(toolResultsToAddToMessageHistory) = 2
  /\ streamDone /\ pc = "await"

\* ------------------------------------------------------- useMessageQueue

\* the dispatch effect: with every guard passed and a message in the queue
\* it arms the 100 ms timeout, which keeps the list it has read
DispatchEffect(can, status, messageId, chain, streams, queuedList) ==
  IF /\ can
     /\ status = "idle"
     /\ ~messageId
     /\ ~chain
     /\ ~(streams > 0)
     /\ ~(Len(queuedList) = 0)
    THEN [pending |-> TRUE, queuedList |-> queuedList]
    ELSE NoTimer

\* a render after setStreamStatus(status) and setCanProcessQueue(can): when a
\* dependency of the dispatch effect has changed its cleanup clears the
\* timeout and the effect runs again, reading the refs as they are then
Rerender(status, can, messageId, streams) ==
  /\ streamStatus' = status
  /\ canProcessQueue' = can
  /\ dispatchTimer' =
       IF status = streamStatus /\ can = canProcessQueue
         THEN dispatchTimer
         ELSE DispatchEffect(can, status, messageId, isChainInProgress,
                             streams, queuedMessagesRef)

\* addToQueue: the ref and the state get the longer list; queuedMessages is
\* not a dependency of the dispatch effect
addToQueue(message) ==
  /\ addedMessages < MaxMessages
  /\ message = addedMessages + 1
  /\ addedMessages' = message
  /\ queuedMessagesRef' = Append(queuedMessagesRef, message)
  /\ queuedMessages' = Append(queuedMessagesRef, message)
  /\ UNCHANGED << streamStatus, canProcessQueue, isChainInProgress,
                  streamMessageId, activeAgentStreams, dispatchTimer,
                  sentMessages, outsideMessageQueue >>

\* the timeout fires: the head of the list the effect had read is sent and
\* the rest of that list becomes the queue
DispatchTimerFires ==
  /\ dispatchTimer.pending
  /\ LET queuedList == dispatchTimer.queuedList
         nextMessage == Head(queuedList)
         remainingMessages == Tail(queuedList)
     IN /\ queuedMessagesRef' = remainingMessages
        /\ queuedMessages' = remainingMessages
        /\ sentMessages' = Append(sentMessages, nextMessage)
  /\ dispatchTimer' = NoTimer
  /\ UNCHANGED << streamStatus, canProcessQueue, isChainInProgress,
                  streamMessageId, activeAgentStreams, addedMessages,
                  outsideMessageQueue >>

\* startStreaming
startStreaming ==
  /\ Rerender("streaming", FALSE, streamMessageId, activeAgentStreams)
  /\ UNCHANGED << queuedMessages, queuedMessagesRef, isChainInProgress,
                  streamMessageId, activeAgentStreams, sentMessages,
                  addedMessages, outsideMessageQueue >>

\* stopStreaming
stopStreaming ==
  /\ Rerender("idle", TRUE, streamMessageId, activeAgentStreams)
  /\ UNCHANGED << queuedMessages, queuedMessagesRef, isChainInProgress,
                  streamMessageId, activeAgentStreams, sentMessages,
                  addedMessages, outsideMessageQueue >>

\* setStreamStatus, as returned by the hook
setStreamStatus(status) ==
  /\ Rerender(status, canProcessQueue, streamMessageId, activeAgentStreams)
  /\ UNCHANGED << queuedMessages, queuedMessagesRef, isChainInProgress,
                  streamMessageId, activeAgentStreams, sentMessages,
                  addedMessages, outsideMessageQueue >>

\* setCanProcessQueue, as returned by the hook
setCanProcessQueue(can) ==
  /\ Rerender(streamStatus, can, streamMessageId, activeAgentStreams)
  /\ UNCHANGED << queuedMessages, queuedMessagesRef, isChainInProgress,
                  streamMessageId, activeAgentStreams, sentMessages,
                  addedMessages, outsideMessageQueue >>

\* clearStreaming: the refs are reset and the status becomes idle
clearStreaming ==
  /\ streamMessageId' = FALSE
  /\ activeAgentStreams' = 0
  /\ Rerender("idle", canProcessQueue, FALSE, 0)
  /\ UNCHANGED << queuedMessages, queuedMessagesRef, isChainInProgress,
                  sentMessages, addedMessages, outsideMessageQueue >>

\* the caller writes one of the refs the hook reads: no render follows
WriteRefs(messageId, chain, streams) ==
  /\ << messageId, chain, streams >> #
       << streamMessageId, isChainInProgress, activeAgentStreams >>
  /\ streamMessageId' = messageId
  /\ isChainInProgress' = chain
  /\ activeAgentStreams' = streams
  /\ UNCHANGED << queuedMessages, queuedMessagesRef, streamStatus,
                  canProcessQueue, dispatchTimer, sentMessages, addedMessages,
                  outsideMessageQueue >>

\* the caller renders the hook with a new sendMessage: the effect runs again
SendMessageChanges ==
  /\ dispatchTimer' =
       DispatchEffect(canProcessQueue, streamStatus, streamMessageId,
                      isChainInProgress, activeAgentStreams, queuedMessagesRef)
  /\ dispatchTimer' # dispatchTimer
  /\ UNCHANGED << queuedMessages, queuedMessagesRef, streamStatus,
                  canProcessQueue, isChainInProgress, streamMessageId,
                  activeAgentStreams, sentMessages, addedMessages,
                  outsideMessageQueue >>

NextMessageQueue ==
  \/ \E message \in 1..MaxMessages : addToQueue(message)
  \/ DispatchTimerFires
  \/ startStreaming
  \/ stopStreaming
  \/ \E status \in StreamStatuses : setStreamStatus(status)
  \/ \E can \in BOOLEAN : setCanProcessQueue(can)
  \/ clearStreaming
  \/ \E messageId \in BOOLEAN : \E chain \in BOOLEAN :
       \E streams \in 0..MaxAgentStreams : WriteRefs(messageId, chain, streams)
  \/ SendMessageChanges

SpecMessageQueue == Init /\ [][NextMessageQueue]_vars

\* the messages added so far, in the order of the addToQueue calls
AddedSoFar == [i \in 1..addedMessages |-> i]

\* C33: every message added with addToQueue is passed to sendMessage exactly
\* once and in the order of the calls, for every interleaving of addToQueue
\* with the dispatch timer and the streaming state changes: the messages
\* sent followed by the messages still queued are the messages added
C33_NothingDroppedNothingTwice ==
  sentMessages \o queuedMessagesRef = AddedSoFar

\* every guard of the dispatch effect passes now
GuardsPass ==
  /\ canProcessQueue
  /\ streamStatus = "idle"
  /\ ~streamMessageId
  /\ ~isChainInProgress
  /\ activeAgentStreams = 0

\* C34: a queued message is passed to sendMessage only at a moment when
\* canProcessQueue is true, streamStatus is idle, no stream message id is
\* set, no chain is in progress and no agent stream is active
C34_SentOnlyWhenGuardsPass ==
  [][sentMessages' # sentMessages => GuardsPass]_vars

\* no queued message is sent while a response is streaming
SentOnlyWhenIdle ==
  [][sentMessages' # sentMessages
       => canProcessQueue /\ streamStatus = "idle"]_vars

\* ------------------------------------------------ the flags after a run

\* a step that ends the run: client.run() has returned or thrown, or the
\* abort listener has finalized it
EndsRun ==
  \/ run = "running" /\ run' = "ended"
  \/ ~wasAbortedByUser /\ wasAbortedByUser'

\* handleRunCompletion has returned at once because the abort listener had
\* finalized the run: the flags are as the listener left them
LeftAsAborted ==
  wasAbortedByUser /\ UNCHANGED << streamStatus, canProcessQueue,
                                   isChainInProgress >>

IsLookupCall == Len(lookups') = Len(lookups) + 1

\* the step is the end of lookup i by a failed fetch
FailsNow(i) ==
  /\ i <= Len(lookups)
  /\ lookups[i].pc = "fetching"
  /\ lookups'[i].via = "failed"

\* C36: getUserInfoFromApiKey caches only successful lookups: once a lookup
\* for a key has succeeded, a later call for that key returns the cached
\* info without a network request; a failed lookup (a response that is not
\* OK, or a thrown error) returns null and stores nothing, so that a later
\* call for the key sends a request again
C36_CachesOnlySuccess ==
  [][/\ IsLookupCall =>
          LET call == lookups'[Len(lookups')]
          IN /\ WritersOf(call.apiKey) # {} =>
                  /\ call.pc = "returned" /\ call.via = "cache"
                  /\ call.result =
                       SelectFields(userInfoCache[call.apiKey], call.fields)
             /\ userInfoCache[call.apiKey] = NoUserInfo =>
                  call.pc = "fetching"
     /\ \A i \in 1..MaxLookups : FailsNow(i) =>
          /\ lookups'[i].result = NullUserInfo
          /\ userInfoCache' = userInfoCache
     /\ \A apiKey \in ApiKeys :
          WritersOf(apiKey) = {} => userInfoCache[apiKey] = NoUserInfo
  ]_vars

\* C36 witness: for one key a lookup failed and returned null, the next
\* one succeeded, and a third call was answered from the cache
C36_Witness ==
  /\ Len(lookups) = 3
  /\ \A i \in 1..3 : lookups[i].apiKey = "key-1" /\ lookups[i].pc = "returned"
  /\ lookups[1].via = "failed" /\ lookups[1].result = NullUserInfo
  /\ lookups[2].via = "network" /\ lookups[2].result.kind = "user"
  /\ lookups[3].via = "cache" /\ lookups[3].result.kind = "user"

\* ------------------------------------------------------- postWebSearch

\* for (let attempt = 1; attempt <= 3; attempt++)
MaxChargeAttempts == 3

\* what checkCreditsAndCharge answers when it has not charged
ChargeFailures == {"insufficient-credits", "charge-failed"}

\* what it answers in all
ChargeOutcomes == {"ok"} \cup ChargeFailures

\* what searchWeb does: a result, no result (null), or it throws
SearchOutcomes == {"result", "null", "throws"}

\* a loop that goes on charging after a successful attempt
ChargesAgain_AfterSuccess(ok, attempt) == attempt < MaxChargeAttempts

\* the retry loop: `if (credits.ok) break`, then the next attempt while
\* attempt < 3
ChargesAgain(ok, attempt) == ~ok /\ attempt < MaxChargeAttempts

\* the response of postWebSearch after searchWeb
SearchResponse(outcome) ==
  CASE outcome = "result" -> "200-result"
    [] outcome = "null" -> "200-no-results"
    [] outcome = "throws" -> "500-error"

\* postWebSearch is called: the body is parsed and the API key checked; a
\* request that passes both goes on to the first charge attempt
PostWebSearch(parsedBodyOk, authedOk) ==
  /\ webSearch.pc \in {"idle", "returned"}
  /\ webSearchRequests < MaxRequests
  /\ webSearchRequests' = webSearchRequests + 1
  /\ webSearch' =
       IF ~parsedBodyOk
         THEN [NoRequest EXCEPT !.pc = "returned", !.response = "parsedBody.response"]
       ELSE IF ~authedOk
         THEN [NoRequest EXCEPT !.pc = "returned", !.response = "authed.response"]
       ELSE [NoRequest EXCEPT !.pc = "charging", !.attempt = 1]
  /\ UNCHANGED outsideWebSearch

\* checkCreditsAndCharge returns: a successful charge leaves the loop for
\* the search, a failure sleeps 1000 * attempt before the next attempt, and
\* the failure of the last attempt is returned
CheckCreditsAndCharge(outcome) ==
  /\ webSearch.pc = "charging"
  /\ LET ok == outcome = "ok"
         counted == [webSearch EXCEPT
                       !.credits = Append(@, outcome),
                       !.chargeAttempts = @ + 1,
                       !.charges = IF ok THEN @ + 1 ELSE @]
     IN webSearch' =
          IF ChargesAgain(ok, webSearch.attempt)
            THEN IF ok
                   THEN [counted EXCEPT !.attempt = @ + 1]
                   ELSE [counted EXCEPT
                           !.pc = "sleeping",
                           !.slept = Append(@, 1000 * webSearch.attempt)]
          ELSE IF ok
            THEN [counted EXCEPT !.pc = "searching"]
          ELSE [counted EXCEPT !.pc = "returned", !.response = outcome]
  /\ UNCHANGED << webSearchRequests, outsideWebSearch >>

\* the sleep ends: 'Credits charge failed, retrying' and the next attempt
SleepEnds ==
  /\ webSearch.pc = "sleeping"
  /\ webSearch' = [webSearch EXCEPT !.pc = "charging", !.attempt = @ + 1]
  /\ UNCHANGED << webSearchRequests, outsideWebSearch >>

\* searchWeb settles and the response is built
SearchWeb(outcome) ==
  /\ webSearch.pc = "searching"
  /\ webSearch' = [webSearch EXCEPT
       !.pc = "returned",
       !.searches = @ + 1,
       !.response = SearchResponse(outcome)]
  /\ UNCHANGED << webSearchRequests, outsideWebSearch >>

NextWebSearch ==
  \/ \E parsedBodyOk \in BOOLEAN, authedOk \in BOOLEAN :
       PostWebSearch(parsedBodyOk, authedOk)
  \/ \E outcome \in ChargeOutcomes : CheckCreditsAndCharge(outcome)
  \/ SleepEnds
  \/ \E outcome \in SearchOutcomes : SearchWeb(outcome)

SpecWebSearch == Init /\ [][NextWebSearch]_vars

\* C37: postWebSearch searches only after a credit charge has succeeded,
\* makes at most 3 charge attempts for a request, stops charging after the
\* first successful attempt, so that a request is charged once at most, and
\* returns the failure response without searching when every attempt failed
C37_ChargeThenSearch ==
  /\ webSearch.pc = "searching" \/ webSearch.searches > 0
       => webSearch.charges = 1
  /\ webSearch.chargeAttempts <= 3
  /\ webSearch.charges <= 1
  /\ webSearch.charges = 1 => webSearch.pc \in {"searching", "returned"}
  /\ (webSearch.pc = "returned" /\ webSearch.chargeAttempts > 0
        /\ webSearch.charges = 0)
       => /\ webSearch.chargeAttempts = 3
          /\ webSearch.searches = 0
          /\ webSearch.response \in ChargeFailures

\* C37 witness: the second request was charged on its third attempt, after
\* sleeps of 1 s and 2 s, and then searched
C37_Witness ==
  /\ webSearchRequests = 2
  /\ webSearch.pc = "returned" /\ webSearch.response = "200-result"
  /\ webSearch.chargeAttempts = 3 /\ webSearch.charges = 1
  /\ webSearch.slept = << 1000, 2000 >>
  /\ webSearch.searches = 1

\* ------------------------------------------------------------ run states
\* A run state is a tree of objects held by reference: the run state, its
\* mainAgentState, the messageHistory array, its fileContext and the
\* knowledgeFiles record.  Two run states that hold the same reference share
\* the object, and a write through one is seen through the other.

\* messages; a message may carry a property whose value is undefined
Messages == [text : {"hello"}, undefinedField : BOOLEAN]

Object(kind, a, b, items, n) ==
  [kind |-> kind, a |-> a, b |-> b, items |-> items, n |-> n]

\* the objects of one run state { sessionState: { mainAgentState:
\* { messageHistory, stepsRemaining }, fileContext: { knowledgeFiles } } },
\* allocated from reference base + 1 on
RunStateObjects(base, history, steps, files) ==
  << Object("runState", base + 2, base + 4, << >>, 1),
     Object("agentState", base + 3, NoRef, << >>, steps),
     Object("array", NoRef, NoRef, history, 0),
     Object("fileContext", base + 5, NoRef, << >>, 0),
     Object("files", NoRef, NoRef, files, 0) >>

RunStates(h) == {r \in DOMAIN h : h[r].kind = "runState"}
Arrays(h) == {r \in DOMAIN h : h[r].kind = "array"}
Files(h) == {r \in DOMAIN h : h[r].kind = "files"}

\* what is read through run state r: message history, agent state and file
\* context
ContentOf(h, r) ==
  IF r = NoRef \/ h[r].n = 0
    THEN NoContent
    ELSE [sessionState |-> TRUE,
          messageHistory |-> h[h[h[r].a].a].items,
          stepsRemaining |-> h[h[r].a].n,
          knowledgeFiles |-> h[h[h[r].b].a].items]

\* JSON.parse(JSON.stringify(x)): a property whose value is undefined is
\* dropped
JsonRoundTrip(content) ==
  [content EXCEPT !.messageHistory =
     [i \in DOMAIN @ |-> [@[i] EXCEPT !.undefinedField = FALSE]]]

\* cloneDeep(runState): new objects all the way down
cloneDeep(h, r) ==
  LET c == ContentOf(h, r)
  IN  RunStateObjects(Len(h), c.messageHistory, c.stepsRemaining,
                      c.knowledgeFiles)

\* JSON.parse(JSON.stringify(runState)): new objects all the way down
JsonCopy(h, r) ==
  LET c == JsonRoundTrip(ContentOf(h, r))
  IN  RunStateObjects(Len(h), c.messageHistory, c.stepsRemaining,
                      c.knowledgeFiles)

\* the record of a call
CallOf(fn, input, result, maxAgentSteps) ==
  [fn |-> fn, input |-> input, result |-> result,
   before |-> ContentOf(heap, input), maxAgentSteps |-> maxAgentSteps,
   mutations |-> lastCall.mutations]

\* generateInitialRunState({ maxAgentSteps }): initialSessionState builds the
\* session state and applies maxAgentSteps when it is truthy
generateInitialRunState(maxAgentSteps) ==
  /\ runStateCalls < MaxRunStateCalls
  /\ heap' = heap \o RunStateObjects(Len(heap), << >>,
                       StepsOfInitialSessionState(maxAgentSteps),
                       << "knowledge.md" >>)
  /\ lastCall' = CallOf("initialSessionState", NoRef, Len(heap) + 1,
                        maxAgentSteps)
  /\ runStateCalls' = runStateCalls + 1
  /\ UNCHANGED outsideRunState

\* withAdditionalMessage({ runState, message })
withAdditionalMessage(runState, message) ==
  /\ runStateCalls < MaxRunStateCalls
  /\ runState \in RunStates(heap)
  /\ LET new == Len(heap) + 1
         cloned == heap \o cloneDeep(heap, runState)
         history == cloned[cloned[new].a].a
     IN  /\ heap' = IF cloned[new].n = 1
                      THEN [cloned EXCEPT ![history].items =
                              Append(@, message)]
                      ELSE cloned
         /\ lastCall' = CallOf("withAdditionalMessage", runState, new,
                               [defined |-> FALSE, value |-> 0])
  /\ runStateCalls' = runStateCalls + 1
  /\ UNCHANGED outsideRunState

\* the array a caller hands to withMessageHistory: one it has just built, or
\* one it already holds, the message history of a run state included
MessagesArguments(h) ==
  {[fresh |-> TRUE, ref |-> NoRef]} \cup
  {[fresh |-> FALSE, ref |-> r] : r \in Arrays(h)}

\* withMessageHistory({ runState, messages }): the copy's messageHistory is
\* the caller's array itself
withMessageHistory(runState, messages) ==
  /\ runStateCalls < MaxRunStateCalls
  /\ runState \in RunStates(heap)
  /\ LET new == Len(heap) + 1
         copied == heap \o JsonCopy(heap, runState)
         given == IF messages.fresh
                    THEN copied \o
                         << Object("array", NoRef, NoRef,
                                   << [text |-> "hello",
                                       undefinedField |-> FALSE] >>, 0) >>
                    ELSE copied
         array == IF messages.fresh THEN Len(given) ELSE messages.ref
     IN  /\ heap' = IF given[new].n = 1
                      THEN [given EXCEPT ![given[new].a].a = array]
                      ELSE given
         /\ lastCall' = CallOf("withMessageHistory", runState, new,
                               [defined |-> FALSE, value |-> 0])
  /\ runStateCalls' = runStateCalls + 1
  /\ UNCHANGED outsideRunState

\* the knowledgeFiles override: undefined, a record the caller has just
\* built, or one it already holds
KnowledgeFilesArguments(h) ==
  {[given |-> "undefined", ref |-> NoRef], [given |-> "fresh", ref |-> NoRef]}
    \cup {[given |-> "held", ref |-> r] : r \in Files(h)}

\* applyOverridesToSessionState(cwd, baseSessionState, { maxAgentSteps,
\* projectFiles, knowledgeFiles }): knowledgeFiles is derived from
\* projectFiles when only the latter is given
ApplyOverrides(base, maxAgentSteps, projectFiles, knowledgeFiles) ==
  /\ runStateCalls < MaxRunStateCalls
  /\ base \in RunStates(heap)
  /\ heap[base].n = 1
  /\ LET new == Len(heap) + 1
         copied == heap \o JsonCopy(heap, base)
         agentState == copied[new].a
         stepped == [copied EXCEPT ![agentState].n =
                       StepsOfOverrides(maxAgentSteps, @)]
         built == IF knowledgeFiles.given = "fresh"
                    THEN << "override.md" >>
                    ELSE << "derived.md" >>
         allocates == \/ knowledgeFiles.given = "fresh"
                      \/ projectFiles /\ knowledgeFiles.given = "undefined"
         given == IF allocates
                    THEN stepped \o
                         << Object("files", NoRef, NoRef, built, 0) >>
                    ELSE stepped
         files == CASE allocates -> Len(given)
                    [] knowledgeFiles.given = "held" -> knowledgeFiles.ref
                    [] OTHER -> given[given[new].b].a
     IN  /\ heap' = [given EXCEPT ![given[new].b].a = files]
         /\ lastCall' = CallOf("applyOverridesToSessionState", base, new,
                               maxAgentSteps)
  /\ runStateCalls' = runStateCalls + 1
  /\ UNCHANGED outsideRunState

\* the caller's later writes to the state it got back
Mutations == {"push", "steps", "files"}

MutateReturned(mutation) ==
  /\ lastCall.result # NoRef
  /\ lastCall.mutations < MaxMutations
  /\ heap[lastCall.result].n = 1
  /\ LET agentState == heap[lastCall.result].a
         history == heap[agentState].a
         files == heap[heap[lastCall.result].b].a
     IN  heap' =
           CASE mutation = "push" ->
                  [heap EXCEPT ![history].items =
                     Append(@, [text |-> "hello", undefinedField |-> FALSE])]
             [] mutation = "steps" ->
                  [heap EXCEPT ![agentState].n = IF @ > 0 THEN @ - 1 ELSE @]
             [] mutation = "files" ->
                  [heap EXCEPT ![files].items = Append(@, "later.md")]
  /\ lastCall' = [lastCall EXCEPT !.mutations = @ + 1]
  /\ UNCHANGED << runStateCalls, outsideRunState >>

NextRunState ==
  \/ \E maxAgentSteps \in MaxAgentStepsOptions :
       generateInitialRunState(maxAgentSteps)
  \/ \E runState \in RunStates(heap), message \in Messages :
       withAdditionalMessage(runState, message)
  \/ \E runState \in RunStates(heap), messages \in MessagesArguments(heap) :
       withMessageHistory(runState, messages)
  \/ \E base \in RunStates(heap), maxAgentSteps \in MaxAgentStepsOptions,
        projectFiles \in BOOLEAN,
        knowledgeFiles \in KnowledgeFilesArguments(heap) :
       ApplyOverrides(base, maxAgentSteps, projectFiles, knowledgeFiles)
  \/ \E mutation \in Mutations : MutateReturned(mutation)

SpecRunState == Init /\ [][NextRunState]_vars

\* the last step was a call that builds a session state with maxAgentSteps
\* provided
StepsProvided ==
  /\ runStateCalls' # runStateCalls
  /\ lastCall'.fn \in {"initialSessionState", "applyOverridesToSessionState"}
  /\ lastCall'.maxAgentSteps.defined

StepsOfResult == ContentOf(heap', lastCall'.result).stepsRemaining

\* C38: whenever the caller provides maxAgentSteps, 0 included, the session
\* state that initialSessionState or applyOverridesToSessionState returns has
\* mainAgentState.stepsRemaining equal to it
C38_ProvidedStepsApplied ==
  [][StepsProvided => StepsOfResult = lastCall'.maxAgentSteps.value]_vars

\* the two halves that do hold: an override is applied whatever its value,
\* and initialSessionState applies every provided value but 0
ProvidedStepsAppliedButZeroAtCreation ==
  [][StepsProvided
       /\ (lastCall'.fn = "initialSessionState"
             => lastCall'.maxAgentSteps.value # 0)
       => StepsOfResult = lastCall'.maxAgentSteps.value]_vars

\* the last call was one of the three functions that derive a state
DerivesState ==
  lastCall.fn \in {"withAdditionalMessage", "withMessageHistory",
                   "applyOverridesToSessionState"}

\* the returned state holds none of the objects of the input
SharesNothing ==
  LET input == heap[lastCall.input]
      result == heap[lastCall.result]
  IN  /\ lastCall.result # lastCall.input
      /\ result.a # input.a
      /\ result.b # input.b
      /\ heap[result.a].a # heap[input.a].a
      /\ heap[result.b].a # heap[input.b].a

\* C39: withAdditionalMessage, withMessageHistory and
\* applyOverridesToSessionState return a new state, and the message history,
\* file context and agent state of their input are as before the call,
\* whatever is written to the returned state afterwards
C39_InputLeftUnchanged ==
  DerivesState =>
    /\ lastCall.result # lastCall.input
    /\ ContentOf(heap, lastCall.input) = lastCall.before

\* the part that does hold: the input is as before as long as the caller did
\* not hand in, as messages or knowledgeFiles, an object of the input itself
InputLeftUnchangedUnlessHandedIn ==
  DerivesState =>
    /\ lastCall.result # lastCall.input
    /\ lastCall.result # NoRef
    /\ SharesNothing => ContentOf(heap, lastCall.input) = lastCall.before

\* the copies themselves share nothing with the input: withAdditionalMessage
\* never does
CopySharesNothing ==
  lastCall.fn = "withAdditionalMessage" => SharesNothing

\* ------------------------------------------------------------ read_docs
\* toolCall.input.topic: absent, empty or a topic
Topics ==
  {UndefinedText, [defined |-> TRUE, text |-> ""],
   [defined |-> TRUE, text |-> "hooks"]}

\* what callDocsSearchAPI resolves with: any of error, documentation and
\* creditsUsed may be absent, and documentation and creditsUsed may be of
\* another type than string and number
ReturnedResponses ==
  [thrown : {"none"},
   error : {UndefinedText, [defined |-> TRUE, text |-> ""],
            [defined |-> TRUE, text |-> "rate limited"]},
   documentation : {[type |-> "undefined", text |-> ""],
                    [type |-> "string", text |-> ""],
                    [type |-> "string", text |-> "docs"],
                    [type |-> "object", text |-> ""]},
   creditsUsed : {[type |-> "undefined", value |-> 0],
                  [type |-> "string", value |-> 1]} \cup
                 {[type |-> "number", value |-> n] : n \in 0..2}]

\* what callDocsSearchAPI rejects with: an Error, or another value
ThrownResponses ==
  {[NoResponse EXCEPT !.thrown = "Error",
                      !.error = [defined |-> TRUE, text |-> "fetch failed"]],
   [NoResponse EXCEPT !.thrown = "other"]}

DocsSearchResponses == ReturnedResponses \cup ThrownResponses

\* a string in a condition: undefined and '' are falsy
TruthyText(t) == t.defined /\ t.text # ""

\* a value in a template literal
StringOf(t) == IF t.defined THEN t.text ELSE "undefined"

\* if (viaWebApi.error || typeof viaWebApi.documentation !== 'string')
ReturnsError(response) ==
  TruthyText(response.error) \/ response.documentation.type # "string"

\* docMsg, the parts of the template literal in order
docMsg(topic, response) ==
  << "Error fetching documentation for", "libraryTitle" >>
    \o (IF TruthyText(topic) THEN << "topic:", topic.text >> ELSE << >>)
    \o << StringOf(response.error) >>

\* errMsg of the catch block
errMsg(response) ==
  << "Error fetching documentation for", "libraryTitle",
     IF response.thrown = "Error" THEN response.error.text
                                  ELSE "Unknown error" >>

\* the value documentationPromise resolves with
ValueOf(topic, response) ==
  CASE response.thrown # "none" ->
         [documentation |-> errMsg(response),
          errorMessage |-> [defined |-> TRUE, text |-> "errMsg"]]
    [] response.thrown = "none" /\ ReturnsError(response) ->
         [documentation |-> docMsg(topic, response),
          errorMessage |-> response.error]
    [] OTHER ->
         [documentation |-> << response.documentation.text >>,
          errorMessage |-> UndefinedText]

CapturedCreditsUsed_WhateverTheOutcome(response) ==
  IF response.creditsUsed.type = "number"
    THEN response.creditsUsed.value
    ELSE 0

\* capturedCreditsUsed: 0, unless the flow reaches the capture past the error
\* return with a creditsUsed of type number
CapturedCreditsUsed(response) ==
  IF /\ response.thrown = "none"
     /\ ~ReturnsError(response)
     /\ response.creditsUsed.type = "number"
    THEN response.creditsUsed.value
    ELSE 0

\* result: one json part with the value, once previousToolCallFinished and
\* documentationPromise have both resolved
ResultOf(finished, settled, value) ==
  IF finished /\ settled
    THEN << [type |-> "json", value |-> value] >>
    ELSE << >>

\* handleReadDocs(params): starts the fetch and returns the two promises
handleReadDocs(topic) ==
  /\ readDocsCalls < MaxReadDocsCalls
  /\ readDocs.pc \in {"idle", "settled"}
  /\ readDocs' = [NoReadDocs EXCEPT !.pc = "fetching", !.topic = topic]
  /\ readDocsCalls' = readDocsCalls + 1
  /\ UNCHANGED outsideReadDocs

\* previousToolCallFinished resolves
PreviousToolCallFinishes ==
  /\ readDocs.pc # "idle"
  /\ ~readDocs.previousToolCallFinished
  /\ readDocs' =
       [readDocs EXCEPT
          !.previousToolCallFinished = TRUE,
          !.result = ResultOf(TRUE, readDocs.pc = "settled", readDocs.value)]
  /\ UNCHANGED << readDocsCalls, outsideReadDocs >>

\* callDocsSearchAPI settles: documentationPromise resolves, and with it
\* state.creditsUsed
DocsSearchSettles(response) ==
  /\ readDocs.pc = "fetching"
  /\ LET value == ValueOf(readDocs.topic, response)
         captured == CapturedCreditsUsed(response)
     IN  readDocs' =
           [readDocs EXCEPT
              !.pc = "settled",
              !.response = response,
              !.capturedCreditsUsed = captured,
              !.value = value,
              !.result = ResultOf(readDocs.previousToolCallFinished, TRUE,
                                  value),
              !.creditsUsed = [resolved |-> TRUE, value |-> captured]]
  /\ UNCHANGED << readDocsCalls, outsideReadDocs >>

NextReadDocs ==
  \/ \E topic \in Topics : handleReadDocs(topic)
  \/ PreviousToolCallFinishes
  \/ \E response \in DocsSearchResponses : DocsSearchSettles(response)

SpecReadDocs == Init /\ [][NextReadDocs]_vars

\* the fetch succeeded: nothing thrown, no error, a documentation string
FetchSucceeded(response) ==
  /\ response.thrown = "none"
  /\ ~TruthyText(response.error)
  /\ response.documentation.type = "string"

Contains(seq, text) == \E i \in DOMAIN seq : seq[i] = text

\* the text of the error, where the failure has one
ErrorTexts(response) ==
  IF response.thrown = "other" THEN {"Unknown error"}
  ELSE IF TruthyText(response.error) THEN {response.error.text}
  ELSE {}

\* C40: handleReadDocs reports creditsUsed > 0 only when the fetch succeeded
\* with a creditsUsed of type number; when the fetch failed (error field,
\* exception, no documentation string) it reports 0 credits, and the result,
\* once returned, is exactly one json part whose documentation is the error
\* message with the text of the error
C40_CreditsOnlyOnSuccess ==
  LET response == readDocs.response
  IN  /\ readDocs.creditsUsed.value > 0
           => /\ readDocs.pc = "settled"
              /\ FetchSucceeded(response)
              /\ response.creditsUsed.type = "number"
      /\ (readDocs.pc = "settled" /\ ~FetchSucceeded(response))
           => /\ readDocs.creditsUsed = [resolved |-> TRUE, value |-> 0]
              /\ readDocs.previousToolCallFinished
                   => /\ Len(readDocs.result) = 1
                      /\ readDocs.result[1].type = "json"
                      /\ Contains(readDocs.result[1].value.documentation,
                                  "Error fetching documentation for")
                      /\ \A text \in ErrorTexts(response) :
                           Contains(readDocs.result[1].value.documentation,
                                    text)

\* C40 witness: the response carried an error and a numeric creditsUsed of 2;
\* the handler reported 0 credits and returned one json part with the error
C40_Witness ==
  /\ readDocs.pc = "settled"
  /\ readDocs.response.error.text = "rate limited"
  /\ readDocs.response.creditsUsed = [type |-> "number", value |-> 2]
  /\ readDocs.creditsUsed = [resolved |-> TRUE, value |-> 0]
  /\ Len(readDocs.result) = 1
  /\ Contains(readDocs.result[1].value.documentation, "rate limited")

====
